---------------------------- MODULE Spec2Model ----------------------------
(***************************************************************************)
(* vimeet-server: the WebSocketServer actor (src/src/server.rs), the room  *)
(* state it owns and the messages it hands to the session actors           *)
(* (src/src/main.rs).                                                      *)
(*                                                                         *)
(* The WebSocketServer is one actix actor: it handles one message of its   *)
(* mailbox to completion before the next.  Each action below is one        *)
(* handler run.  The session actors decide which messages can arrive: a    *)
(* session posts Join when it starts, its commands carry its own id, name  *)
(* and room, and Disconnect is posted when it stops (twice on a heartbeat  *)
(* timeout).                                                               *)
(*                                                                         *)
(* Outbound messages are records holding the fields of the json!() value   *)
(* built in server.rs; the field "type" holds the name of the variant of   *)
(* messages::outbound::Types the handler uses (Joined, All, SelfStatus,    *)
(* Raised, Lower, Instant, Elevated, Receded, Error, VoteDelete, Poll,     *)
(* PollOption, Vote, PollClose).  The description text of an Error is a    *)
(* literal of its call site and is left out.  The owner_id, owner_name and *)
(* room_name fields of Poll and PollOption are stored by the handlers and  *)
(* never read again; polls keep title, options, votes and closed.          *)
(***************************************************************************)
EXTENDS Integers, Sequences, FiniteSets, TLC

\* ----------------------------------------------------------------- bounds
\* Number of sessions ever accepted (ids 1..MaxId are issued).
MaxId == 3
\* Longest raised list a room is driven to.
MaxRaised == 2
\* Number of sessions accepted in the poll scenario.
MaxVoters == 2
\* Last second of the clock in the heartbeat scenarios.
MaxTime == 20
\* The messages the WebSocketServer handles in the scenario of concurrent posts.
MaxCmds == 5

RoomNames == {"r1", "r2"}
UserNames == {"alice", "bob"}
Objects == {"x", "y"}
PollTitles == {"p", "q"}
OptionTitles == {"a", "b"}

\* First value of COUNTER in get_id.
FirstId == 1
\* The skip id send_message_all passes to send_message_skip_user, also the
\* userid written into redacted Vote and VoteDelete messages.
NoUser == 0

\* HEARTBEAT_INTERVAL and CLIENT_TIMEOUT, in seconds.
HEARTBEAT_INTERVAL == 5
CLIENT_TIMEOUT == 10

Ids == FirstId..MaxId

VARIABLES
    counter,    \* COUNTER of get_id: the id the next session gets
    session,    \* the running WsWebSocketSession actors: id -> [room, name]
    sessions,   \* WebSocketServer.sessions (its key set; the value is the outbox)
    rooms,      \* WebSocketServer.rooms: room name -> Room
    outbox,     \* per session id, the messages the step taken last did do_send to it
    last,       \* the message the WebSocketServer handled last, or the step a session
                \* took last, and how it ended
    before,     \* sessions and rooms as they were when that step began
    everElevated, \* the session ids that have been elevated at the end of some handler run
    view,       \* per session id, what its client has made of the Vote and VoteDelete messages
    issued,     \* the ids get_id has returned, in the order of the fetch_add calls
    mailbox,    \* the Join and Disconnect messages posted to the WebSocketServer and not yet handled
    now,        \* the clock (Instant::now()), in seconds
    timer,      \* per started session id: hb (last), the next heartbeat tick (due), and
                \* the ticks passed since hb was set that came later than hb (late)
    accepted,   \* per id, the room and name of a session constructed and not yet started
    serial,     \* the number of messages the WebSocketServer has handled from its mailbox
    inbox,      \* per session id, the mailbox of the session actor: the server::Message
                \* values sent to it and not yet written to its socket
    wire        \* per session id, the two messages written last to its socket (their tags)

vars == <<counter, session, sessions, rooms, outbox, last, before, everElevated, view,
          issued, mailbox, now, timer, accepted, serial, inbox, wire>>

\* ------------------------------------------------------------ map helpers
\* HashMap::insert
Put(m, k, v) == [x \in DOMAIN m \cup {k} |-> IF x = k THEN v ELSE m[x]]

\* HashMap::remove
Del(m, k) == [x \in DOMAIN m \ {k} |-> m[x]]

\* Vec::retain with the predicate "is not at one of the positions in drop"
RECURSIVE Keep(_, _)
Keep(s, keep) ==
    IF s = <<>> THEN <<>>
    ELSE LET n == Len(s)
             front == Keep(SubSeq(s, 1, n - 1), keep)
         IN IF n \in keep THEN Append(front, s[n]) ELSE front

\* The orders in which a HashMap over a subset of the ids may be iterated.
Orderings(S) ==
    {o \in [1..Cardinality(S) -> S] : \A i, j \in DOMAIN o : i # j => o[i] # o[j]}

IdOrders == Orderings(Ids)

\* The keys of map m in the iteration order ord (an order of all ids).
RECURSIVE KeysIn(_, _)
KeysIn(m, ord) ==
    IF ord = <<>> THEN <<>>
    ELSE IF Head(ord) \in DOMAIN m
         THEN <<Head(ord)>> \o KeysIn(m, Tail(ord))
         ELSE KeysIn(m, Tail(ord))

\* ------------------------------------------------------------- data model
\* impl Default for Room
RoomDefault == [raised |-> <<>>, polls |-> <<>>, connected |-> <<>>]

\* self.rooms.entry(name).or_insert(Room::default()), read side
RoomOrDefault(rs, name) == IF name \in DOMAIN rs THEN rs[name] ELSE RoomDefault

\* struct User
User(name, elevated) == [name |-> name, elevated |-> elevated]

\* struct Raised
Raised(object, owner_id, owner_name) ==
    [object |-> object, owner_id |-> owner_id, owner_name |-> owner_name]

\* impl PartialEq for Raised: owner_name takes no part
RaisedEq(a, b) == a.object = b.object /\ a.owner_id = b.owner_id

\* struct Poll as main.rs builds it for a "poll" frame
NewPoll(title) == [title |-> title, options |-> <<>>, votes |-> <<>>, closed |-> FALSE]

\* Variant of remove_user: only the oldest flag of the user is removed.
remove_user_FirstOnly(room, user_id) ==
    [room EXCEPT !.raised =
        Keep(room.raised, {i \in DOMAIN room.raised :
                              \/ room.raised[i].owner_id # user_id
                              \/ \E j \in 1..(i - 1) : room.raised[j].owner_id = user_id})]

\* Variant of remove_user: the raised list is left as it is.
remove_user_KeepsRaised(room, user_id) == room

\* Room::remove_user
remove_user(room, user_id) ==
    [room EXCEPT !.raised =
        Keep(room.raised, {i \in DOMAIN room.raised : room.raised[i].owner_id # user_id})]

\* Room::is_elevated: "err" stands for Err("")
is_elevated(room, user_id) ==
    IF user_id \in DOMAIN room.connected
    THEN IF room.connected[user_id].elevated THEN "true" ELSE "false"
    ELSE "err"

\* Room::is_elevated(..).unwrap_or(false)
is_elevated_or_false(room, user_id) == is_elevated(room, user_id) = "true"

\* Room::set_elevated
set_elevated(room, user_id, elevated) ==
    IF user_id \in DOMAIN room.connected
    THEN [room EXCEPT !.connected[user_id].elevated = elevated]
    ELSE room

\* --------------------------------------------------------------- messages
MJoined(id, name, elevated) ==
    [type |-> "Joined", object |-> [id |-> id, name |-> name, elevated |-> elevated]]

MAll(room) == [type |-> "All", raised |-> room.raised, joined |-> room.connected]

MSelfStatus(id, elevated) == [type |-> "SelfStatus", object |-> id, elevated |-> elevated]

MOwnedObject(type, owner_id, owner_name, object, elevated) ==
    [type |-> type, owner_id |-> owner_id, owner_name |-> owner_name,
     object |-> object, elevated |-> elevated]

MPermissionChange(type, id, elevated) == [type |-> type, object |-> id, elevated |-> elevated]

MError(code) == [type |-> "Error", object |-> code]

MVoteDelete(poll, option, userid) ==
    [type |-> "VoteDelete", pollobject |-> poll, polloptionobject |-> option, userid |-> userid]

MPoll(title) == [type |-> "Poll", object |-> title]

MPollOption(poll, option) ==
    [type |-> "PollOption", pollobject |-> poll, polloptionobject |-> option]

MVote(poll, option, username, userid) ==
    [type |-> "Vote", pollobject |-> poll, polloptionobject |-> option,
     username |-> username, userid |-> userid]

MPollClose(title) == [type |-> "PollClose", object |-> title]

\* ---------------------------------------------------------------- fan-out
\* The senders take the deliveries made so far (ob), self.sessions (ss) and
\* self.rooms (rs) as they are at the call, and return the deliveries after it.
NoMail == [u \in Ids |-> <<>>]

\* The place of a message among the messages one handler run sent to one session:
\* the run, the position and the number sent.  NoTag: nothing written yet.
NoTag == [serial |-> 0, k |-> 0, n |-> 0]

\* addr.do_send(Message(..)) to every id in to
Deliver(ob, to, msg) == [u \in DOMAIN ob |-> IF u \in to THEN Append(ob[u], msg) ELSE ob[u]]

\* Variant of send_message_skip_user: the members of every room are reached.
send_message_skip_user_AllRooms(ob, ss, rs, room, msg, skip_id) ==
    Deliver(ob, {id \in ss : id # skip_id /\ \E r \in DOMAIN rs : id \in DOMAIN rs[r].connected},
            msg)

\* Variant of send_message_skip_user: skip_id is not compared.
send_message_skip_user_NoSkip(ob, ss, rs, room, msg, skip_id) ==
    IF room \in DOMAIN rs
    THEN Deliver(ob, {id \in DOMAIN rs[room].connected : id \in ss}, msg)
    ELSE ob

\* WebSocketServer::send_message_skip_user
send_message_skip_user(ob, ss, rs, room, msg, skip_id) ==
    IF room \in DOMAIN rs
    THEN Deliver(ob, {id \in DOMAIN rs[room].connected : id # skip_id /\ id \in ss}, msg)
    ELSE ob

\* WebSocketServer::send_message_all
send_message_all(ob, ss, rs, room, msg) == send_message_skip_user(ob, ss, rs, room, msg, NoUser)

\* Variant of send_message_user: the message goes to every member of the room.
send_message_user_ToRoom(ob, ss, rs, room, msg, user_id) ==
    IF room \in DOMAIN rs
    THEN Deliver(ob, {id \in DOMAIN rs[room].connected : id \in ss}, msg)
    ELSE ob

\* WebSocketServer::send_message_user
send_message_user(ob, ss, rs, room, msg, user_id) ==
    IF room \in DOMAIN rs
    THEN Deliver(ob, {id \in DOMAIN rs[room].connected : id = user_id /\ id \in ss}, msg)
    ELSE ob

\* Variant of send_message_all_elevated: the test of user.elevated is missing.
send_message_all_elevated_NoFilter(ob, ss, rs, room, msg) ==
    IF room \in DOMAIN rs
    THEN Deliver(ob, {id \in DOMAIN rs[room].connected : id \in ss}, msg)
    ELSE ob

\* WebSocketServer::send_message_all_elevated
send_message_all_elevated(ob, ss, rs, room, msg) ==
    IF room \in DOMAIN rs
    THEN Deliver(ob, {id \in DOMAIN rs[room].connected :
                        rs[room].connected[id].elevated /\ id \in ss}, msg)
    ELSE ob

\* Variant of send_message_all_not_elevated: skips the sessions it should reach
\* and reaches the elevated ones (the negation is missing).
send_message_all_not_elevated_NoNegation(ob, ss, rs, room, msg) ==
    IF room \in DOMAIN rs
    THEN Deliver(ob, {id \in DOMAIN rs[room].connected :
                        rs[room].connected[id].elevated /\ id \in ss}, msg)
    ELSE ob

\* WebSocketServer::send_message_all_not_elevated
send_message_all_not_elevated(ob, ss, rs, room, msg) ==
    IF room \in DOMAIN rs
    THEN Deliver(ob, {id \in DOMAIN rs[room].connected :
                        ~rs[room].connected[id].elevated /\ id \in ss}, msg)
    ELSE ob

\* Variant of send_error_user: the error goes to everybody but the requester.
send_error_user_SkipsUser(ob, ss, rs, room, error_code, user_id) ==
    send_message_skip_user(ob, ss, rs, room, MError(error_code), user_id)

\* Variant of send_error_user: the error goes to the whole room.
send_error_user_ToRoom(ob, ss, rs, room, error_code, user_id) ==
    send_message_all(ob, ss, rs, room, MError(error_code))

\* WebSocketServer::send_error_user
send_error_user(ob, ss, rs, room, error_code, user_id) ==
    send_message_user(ob, ss, rs, room, MError(error_code), user_id)

\* send_message_user for each message of msgs in turn
RECURSIVE SendEachUser(_, _, _, _, _, _)
SendEachUser(ob, ss, rs, room, msgs, user_id) ==
    IF msgs = <<>> THEN ob
    ELSE SendEachUser(send_message_user(ob, ss, rs, room, Head(msgs), user_id),
                      ss, rs, room, Tail(msgs), user_id)

\* for message in messages_to_send_to_elevated { self.send_message_all_elevated(..) }
RECURSIVE SendEachElevated(_, _, _, _, _)
SendEachElevated(ob, ss, rs, room, msgs) ==
    IF msgs = <<>> THEN ob
    ELSE SendEachElevated(send_message_all_elevated(ob, ss, rs, room, Head(msgs)),
                          ss, rs, room, Tail(msgs))

\* for message in messages_to_send_to_not_elevated { self.send_message_all_not_elevated(..) }
RECURSIVE SendEachNotElevated(_, _, _, _, _)
SendEachNotElevated(ob, ss, rs, room, msgs) ==
    IF msgs = <<>> THEN ob
    ELSE SendEachNotElevated(send_message_all_not_elevated(ob, ss, rs, room, Head(msgs)),
                             ss, rs, room, Tail(msgs))

\* ------------------------------------------------------------ text frames
\* serde_json::Value, as far as the frames below need it.
JString(s) == [kind |-> "String", s |-> s, n |-> 0]

JNumber(n) == [kind |-> "Number", s |-> "", n |-> n]

\* serde_json::from_str::<HashMap<String, Value>> of the trimmed text: Err, or the
\* map of the JSON object.
Malformed == [ok |-> FALSE, map |-> <<>>]

Obj(map) == [ok |-> TRUE, map |-> map]

\* Value::as_str: Some(s) of a JSON string, None of anything else.
as_str(v) == IF v.kind = "String" THEN <<v.s>> ELSE <<>>

\* The decimal text of a number.
Decimal == [n \in 0..9 |-> <<"0", "1", "2", "3", "4", "5", "6", "7", "8", "9">>[n + 1]]

\* Value::to_string (Display): the JSON text of the value, a JSON string between
\* its double quotes.
to_string(v) == IF v.kind = "String" THEN <<"\"", v.s, "\"">> ELSE <<Decimal[v.n]>>

\* str::parse::<usize>: Ok(n) of a decimal text, Err of anything else.
parse_usize(text) ==
    IF Len(text) = 1 /\ \E n \in DOMAIN Decimal : Decimal[n] = text[1]
    THEN <<CHOOSE n \in DOMAIN Decimal : Decimal[n] = text[1]>>
    ELSE <<>>

\* What StreamHandler::handle makes of a text frame: the command it posts,
\* "dropped", or "panic" where it indexes the map with a key the map lacks.
Parsed(kind) == [kind |-> kind, object |-> "", poll |-> "", option |-> "", target |-> NoUser]

\* jsonmsg[key].as_str(): HashMap's Index panics on a missing key.
Field(map, key) ==
    IF key \notin DOMAIN map THEN "panic"
    ELSE IF as_str(map[key]) = <<>> THEN "dropped" ELSE "ok"

\* The arms of one string field: raise, lower, poll, closepoll.
OneField(map, kind, key) ==
    IF Field(map, key) # "ok" THEN Parsed(Field(map, key))
    ELSE IF kind \in {"Raise", "Lower"}
         THEN [Parsed(kind) EXCEPT !.object = map[key].s]
         ELSE [Parsed(kind) EXCEPT !.poll = map[key].s]

\* The arms of two string fields: polloption and vote.  The option is indexed
\* first.
TwoFields(map, kind) ==
    IF Field(map, "polloptionobject") = "panic" \/ Field(map, "pollobject") = "panic"
    THEN Parsed("panic")
    ELSE IF Field(map, "polloptionobject") # "ok" \/ Field(map, "pollobject") # "ok"
         THEN Parsed("dropped")
         ELSE [Parsed(kind) EXCEPT !.poll = map["pollobject"].s,
                                   !.option = map["polloptionobject"].s]

\* The elevate and recede arms: jsonmsg["object"].to_string().parse::<usize>()
Privilege(map, kind) ==
    IF "object" \notin DOMAIN map THEN Parsed("panic")
    ELSE IF parse_usize(to_string(map["object"])) = <<>> THEN Parsed("dropped")
         ELSE [Parsed(kind) EXCEPT !.target = parse_usize(to_string(map["object"]))[1]]

\* StreamHandler::handle, ws::Message::Text
handle_text(frame) ==
    IF ~frame.ok THEN Parsed("dropped")
    ELSE IF "type" \notin DOMAIN frame.map THEN Parsed("panic")
    ELSE LET map == frame.map
             type == IF as_str(map["type"]) = <<>> THEN "NOT PARSEABLE" ELSE map["type"].s
         IN CASE type = "raise" -> OneField(map, "Raise", "raiseobject")
              [] type = "lower" -> OneField(map, "Lower", "lowerobject")
              [] type = "instant" ->
                    IF "instantobject" \in DOMAIN map
                    THEN [Parsed("Instant") EXCEPT !.object = map["instantobject"].s]
                    ELSE Parsed("dropped")
              [] type = "poll" -> OneField(map, "Poll", "pollobject")
              [] type = "polloption" -> TwoFields(map, "PollOption")
              [] type = "vote" -> TwoFields(map, "Vote")
              [] type = "closepoll" -> OneField(map, "PollClose", "pollobject")
              [] type = "elevate" -> Privilege(map, "Elevate")
              [] type = "recede" -> Privilege(map, "Recede")
              [] OTHER -> Parsed("dropped")

\* The text frames the sessions send: a frame of every type without its fields,
\* raise, instant, poll, polloption, elevate and recede frames with their fields,
\* frames with one field of two or with a field of another JSON type, a frame of
\* an unknown type, frames without a type or with a type that is no string, and
\* a text that is no JSON object.
Type(t) == "type" :> JString(t)

TextFrames ==
    {Malformed, Obj(<<>>), Obj("raiseobject" :> JString("x")),
     Obj(Type("bogus")), Obj("type" :> JNumber(1))}
    \cup {Obj(Type(t)) : t \in {"raise", "lower", "instant", "poll", "polloption", "vote",
                                "closepoll", "elevate", "recede"}}
    \cup {Obj(Type("raise") @@ "raiseobject" :> v) : v \in {JString("x"), JNumber(1)}}
    \cup {Obj(Type("instant") @@ "instantobject" :> JString("x")),
          Obj(Type("poll") @@ "pollobject" :> JString("p")),
          Obj(Type("polloption") @@ "pollobject" :> JString("p")),
          Obj(Type("vote") @@ "polloptionobject" :> JString("a")),
          Obj(Type("polloption") @@ "pollobject" :> JString("p")
                                 @@ "polloptionobject" :> JString("a"))}
    \cup {Obj(Type(t) @@ "object" :> v) :
             t \in {"elevate", "recede"},
             v \in {JString("2"), JNumber(2), JNumber(1), JString("abc")}}

\* What `last` keeps of a step that handled no text frame.
NoFrame == [ok |-> FALSE, map |-> <<>>]

\* ------------------------------------------------------- handled messages
\* What `last` records of a message: who sent it, its fields, and how the handler
\* ended ("ok", the error code sent, or "ignored" when nothing was done).  inRow and
\* twoBack are history: a Raise or Lower handled directly after a successful Raise of
\* the same object by the same session has inRow = TRUE, and twoBack is then the
\* room's raised list as it was before that earlier Raise.  A Disconnect handled
\* directly after a Disconnect of the same id has inRow = TRUE.  A heartbeat tick
\* records the seconds since hb was set (elapsed) and the pings it sent (pings).
\* A text frame handled by a session is recorded with the frame and, as res, the
\* command made of it, "dropped" or "panic".
Cmd(op, uid, room) ==
    [op |-> op, uid |-> uid, room |-> room, obj |-> "", poll |-> "", opt |-> "",
     target |-> NoUser, res |-> "ok", inRow |-> FALSE, twoBack |-> <<>>,
     elapsed |-> 0, pings |-> 0, frame |-> NoFrame]

\* The value `before` takes in every handler run.
Snapshot == [sessions |-> sessions, rooms |-> rooms]

\* The members with User.elevated = true in the rooms rs.
ElevatedIn(rs) ==
    {u \in Ids : \E r \in DOMAIN rs :
        u \in DOMAIN rs[r].connected /\ rs[r].connected[u].elevated}

\* The entries a client may hold: <<poll title, option title, userid>>.
ViewKeys == PollTitles \X OptionTitles \X (NoUser..MaxId)

\* The view of a client that has received nothing: no entry of any kind.
NoView == [k \in ViewKeys |-> 0]

\* A client takes in one message: a Vote adds one entry (option, userid) to the
\* named poll, a VoteDelete removes one such entry if there is one.
ClientTake(v, m) ==
    IF m.type = "Vote"
    THEN [v EXCEPT ![<<m.pollobject, m.polloptionobject, m.userid>>] = @ + 1]
    ELSE IF m.type = "VoteDelete"
    THEN [v EXCEPT ![<<m.pollobject, m.polloptionobject, m.userid>>] =
             IF @ > 0 THEN @ - 1 ELSE 0]
    ELSE v

\* A client takes in the messages msgs in the order they were sent.
RECURSIVE ClientFold(_, _)
ClientFold(v, msgs) ==
    IF msgs = <<>> THEN v ELSE ClientFold(ClientTake(v, Head(msgs)), Tail(msgs))

\* The history variables, set alike by every step (after sessions', rooms' and
\* outbox' are set).  The client of a session that is gone has no view.
Track ==
    /\ before' = Snapshot
    /\ everElevated' = everElevated \cup ElevatedIn(rooms')
    /\ view' = [u \in Ids |->
                   IF u \in sessions' THEN ClientFold(view[u], outbox'[u]) ELSE NoView]

\* A step that leaves the mailboxes of the session actors and the sockets alone.
Record == Track /\ UNCHANGED <<serial, inbox, wire>>

\* A frame of a session handled by the WebSocketServer as soon as it is received:
\* the mailbox and the clock stay as they are.
History == Record /\ UNCHANGED <<mailbox, now, accepted>>

AfterRaise(uid, object) ==
    last.op = "Raise" /\ last.res = "ok" /\ last.uid = uid /\ last.obj = object

\* ------------------------------------------------------------------- Join
\* Variant of JoinElevated: elevated when the room has no elevated member.
JoinElevated_NoModerator(room) ==
    ~\E u \in DOMAIN room.connected : room.connected[u].elevated

\* Handler<Join>: let elevated = if room.connected.len() > 0 { false } else { true }
JoinElevated(room) == IF Cardinality(DOMAIN room.connected) > 0 THEN FALSE ELSE TRUE

\* Variant of JoinPollReplay: the votes of the poll are not sent.
JoinPollReplay_NoVotes(poll, ord) ==
    IF poll.closed THEN <<>>
    ELSE <<MPoll(poll.title)>>
         \o [i \in 1..Len(poll.options) |-> MPollOption(poll.title, poll.options[i])]

\* Variant of JoinPollReplay: the test of poll.closed is missing.
JoinPollReplay_ClosedToo(poll, ord) ==
    LET voters == KeysIn(poll.votes, ord)
    IN <<MPoll(poll.title)>>
       \o [i \in 1..Len(poll.options) |-> MPollOption(poll.title, poll.options[i])]
       \o [i \in 1..Len(voters) |-> MVote(poll.title, poll.votes[voters[i]], "", NoUser)]

\* Handler<Join>, "send polls": what one poll contributes, its votes iterated in ord
JoinPollReplay(poll, ord) ==
    IF poll.closed THEN <<>>
    ELSE LET voters == KeysIn(poll.votes, ord)
         IN <<MPoll(poll.title)>>
            \o [i \in 1..Len(poll.options) |-> MPollOption(poll.title, poll.options[i])]
            \o [i \in 1..Len(voters) |-> MVote(poll.title, poll.votes[voters[i]], "", NoUser)]

\* Handler<Join>, "send polls": for poll in room.polls.clone()
RECURSIVE JoinReplay(_, _)
JoinReplay(polls, ords) ==
    IF polls = <<>> THEN <<>>
    ELSE JoinPollReplay(Head(polls), Head(ords)) \o JoinReplay(Tail(polls), Tail(ords))

\* Handler<Join>::handle
HandleJoin(user_id, user_name, room_name) ==
    LET room0 == RoomOrDefault(rooms, room_name)
        elevated == JoinElevated(room0)
        room1 == [room0 EXCEPT !.connected = Put(@, user_id, User(user_name, elevated))]
        ss == sessions \cup {user_id}
        rs == Put(rooms, room_name, room1)
        ob1 == send_message_skip_user(NoMail, ss, rs, room_name,
                                      MJoined(user_id, user_name, elevated), user_id)
        ob2 == send_message_user(ob1, ss, rs, room_name, MAll(room1), user_id)
        ob3 == send_message_user(ob2, ss, rs, room_name, MSelfStatus(user_id, elevated), user_id)
    IN \E ords \in [1..Len(room1.polls) -> IdOrders] :
          /\ sessions' = ss
          /\ rooms' = rs
          /\ outbox' = SendEachUser(ob3, ss, rs, room_name,
                                    JoinReplay(room1.polls, ords), user_id)

\* AtomicUsize::fetch_add: the new value of the counter (the old one is returned).
fetch_add_Stuck(c, val) == c

fetch_add(c, val) == c + val

\* started: the heartbeat interval of a session whose hb is the time of its
\* construction.
StartTimer(id) ==
    Put(timer, id, [last |-> now, due |-> now + HEARTBEAT_INTERVAL, late |-> 0])

\* web_socket_route (get_id), WsWebSocketSession::started, Handler<Join>: a
\* connection accepted, its session started and its Join handled, in one step.
Join(room_name, user_name) ==
    /\ counter <= MaxId
    /\ counter' = fetch_add(counter, 1)
    /\ issued' = Append(issued, counter)
    /\ timer' = StartTimer(counter)
    /\ session' = Put(session, counter, [room |-> room_name, name |-> user_name])
    /\ HandleJoin(counter, user_name, room_name)
    /\ last' = Cmd("Join", counter, room_name)
    /\ History

\* ------------------------------------------------------------- Disconnect
\* Variant of DisconnectAffected: the test of poll.closed is missing.
DisconnectAffected_ClosedToo(polls, id) ==
    Keep([i \in DOMAIN polls |-> i], {i \in DOMAIN polls : id \in DOMAIN polls[i].votes})

\* Handler<Disconnect>: the open polls holding a vote of id, in poll order
DisconnectAffected(polls, id) ==
    Keep([i \in DOMAIN polls |-> i],
         {i \in DOMAIN polls : ~polls[i].closed /\ id \in DOMAIN polls[i].votes})

\* Variant of DisconnectPolls: no vote is removed.
DisconnectPolls_Kept(polls, id) == polls

\* Variant of DisconnectPolls: the test of poll.closed is missing.
DisconnectPolls_ClosedToo(polls, id) ==
    [i \in DOMAIN polls |->
        IF id \in DOMAIN polls[i].votes
        THEN [polls[i] EXCEPT !.votes = Del(@, id)]
        ELSE polls[i]]

\* Handler<Disconnect>: room.polls[i].votes.remove(&id) for the open polls
DisconnectPolls(polls, id) ==
    [i \in DOMAIN polls |->
        IF ~polls[i].closed /\ id \in DOMAIN polls[i].votes
        THEN [polls[i] EXCEPT !.votes = Del(@, id)]
        ELSE polls[i]]

\* Variant of HandleDisconnect: the message is dropped.
HandleDisconnect_Dropped(id) ==
    /\ sessions' = sessions
    /\ rooms' = rooms
    /\ outbox' = NoMail

\* Variant of HandleDisconnect: the sessions entry is removed and the rooms are
\* left as they are.
HandleDisconnect_SessionsOnly(id) ==
    /\ sessions' = sessions \ {id}
    /\ rooms' = rooms
    /\ outbox' = NoMail

\* Variant of HandleDisconnect: neither the sessions entry nor the connected entry
\* is tested; every room is purged of the id and its members are sent All.
HandleDisconnect_Unchecked(id) ==
    LET ss == sessions \ {id}
        rs == [r \in DOMAIN rooms |->
                  remove_user([rooms[r] EXCEPT !.connected = Del(@, id)], id)]
        roomOf(u) == {r \in DOMAIN rs : u \in DOMAIN rs[r].connected}
    IN /\ sessions' = ss
       /\ rooms' = rs
       /\ outbox' = [u \in Ids |->
                        IF u \in ss /\ roomOf(u) # {}
                        THEN <<MAll(rs[CHOOSE r \in roomOf(u) : TRUE])>>
                        ELSE <<>>]

\* Handler<Disconnect>::handle
HandleDisconnect(id) ==
    IF id \in sessions
    THEN LET ss == sessions \ {id}
             holding == {r \in DOMAIN rooms : id \in DOMAIN rooms[r].connected}
         IN IF holding = {}
            THEN sessions' = ss /\ rooms' = rooms /\ outbox' = NoMail
            ELSE \E room_name \in holding :
                    LET room0 == rooms[room_name]
                        room1 == remove_user([room0 EXCEPT !.connected = Del(@, id)], id)
                        rs1 == [rooms EXCEPT ![room_name] = room1]
                        ob1 == send_message_all(NoMail, ss, rs1, room_name, MAll(room1))
                        hit == DisconnectAffected(room1.polls, id)
                        to_elevated ==
                            [k \in 1..Len(hit) |->
                                MVoteDelete(room1.polls[hit[k]].title,
                                            room1.polls[hit[k]].votes[id], id)]
                        to_not_elevated ==
                            [k \in 1..Len(hit) |->
                                MVoteDelete(room1.polls[hit[k]].title,
                                            room1.polls[hit[k]].votes[id], NoUser)]
                        room2 == [room1 EXCEPT !.polls = DisconnectPolls(@, id)]
                        rs2 == [rooms EXCEPT ![room_name] = room2]
                        ob2 == SendEachElevated(ob1, ss, rs2, room_name, to_elevated)
                        ob3 == SendEachNotElevated(ob2, ss, rs2, room_name, to_not_elevated)
                    IN sessions' = ss /\ rooms' = rs2 /\ outbox' = ob3
    ELSE sessions' = sessions /\ rooms' = rooms /\ outbox' = NoMail

\* WsWebSocketSession::stopping and the heartbeat's do_send(Disconnect), Handler<Disconnect>:
\* a session that ran posts Disconnect when it stops, and may post it once more.
Disconnect(id) ==
    /\ id \in FirstId..(counter - 1)
    /\ session' = Del(session, id)
    /\ HandleDisconnect(id)
    /\ last' = [Cmd("Disconnect", id, IF id \in DOMAIN session THEN session[id].room ELSE "")
                   EXCEPT !.res = IF id \in sessions THEN "ok" ELSE "ignored",
                          !.inRow = last.op = "Disconnect" /\ last.uid = id]
    /\ timer' = Del(timer, id)
    /\ History
    /\ UNCHANGED <<counter, issued>>

\* ------------------------------------------------------- Raise and Lower
\* Variant of RaiseCheck: the owner comparison is inverted.
RaiseCheck_OtherOwner(raised, object, owner_id) ==
    Len(Keep(raised, {i \in DOMAIN raised :
                        raised[i].object = object /\ raised[i].owner_id # owner_id})) > 0

\* Handler<Raise>: check_raised.retain(..); check_raised.len() > 0
RaiseCheck(raised, object, owner_id) ==
    Len(Keep(raised, {i \in DOMAIN raised :
                        raised[i].object = object /\ raised[i].owner_id = owner_id})) > 0

\* Handler<Raise>: room.raised.push(Raised {..})
RaisePush(raised, object, owner_id, owner_name) ==
    Append(raised, Raised(object, owner_id, owner_name))

\* Handler<Raise>::handle
HandleRaise(object, owner_id, owner_name, room_name) ==
    LET room == rooms[room_name]
    IN IF RaiseCheck(room.raised, object, owner_id)
       THEN /\ outbox' = send_error_user(NoMail, sessions, rooms, room_name,
                                         "already_raised", owner_id)
            /\ UNCHANGED <<sessions, rooms>>
       ELSE LET elevated == is_elevated_or_false(room, owner_id)
                txt == MOwnedObject("Raised", owner_id, owner_name, object, elevated)
            IN /\ outbox' = send_message_all(NoMail, sessions, rooms, room_name, txt)
               /\ rooms' = [rooms EXCEPT ![room_name].raised =
                               RaisePush(@, object, owner_id, owner_name)]
               /\ UNCHANGED sessions

\* StreamHandler::handle, "raise" frame, and Handler<Raise>
Raise(id, object) ==
    /\ id \in DOMAIN session
    /\ LET room_name == session[id].room
           raised == rooms[room_name].raised
           dup == RaiseCheck(raised, object, id)
       IN /\ dup \/ Len(raised) < MaxRaised
          /\ HandleRaise(object, id, session[id].name, room_name)
          /\ last' = [Cmd("Raise", id, room_name) EXCEPT
                         !.obj = object,
                         !.res = IF dup THEN "already_raised" ELSE "ok",
                         !.inRow = AfterRaise(id, object),
                         !.twoBack = IF AfterRaise(id, object)
                                     THEN before.rooms[room_name].raised ELSE <<>>]
    /\ History
    /\ UNCHANGED <<counter, session, issued, timer>>

\* Variant of LowerCheck: the owner is not compared.
LowerCheck_AnyOwner(raised, object, owner_id) ==
    Len(Keep(raised, {i \in DOMAIN raised : raised[i].object = object})) = 0

\* Handler<Lower>: check_raised.retain(..); check_raised.len() == 0
LowerCheck(raised, object, owner_id) ==
    Len(Keep(raised, {i \in DOMAIN raised :
                        raised[i].object = object /\ raised[i].owner_id = owner_id})) = 0

\* Variant of LowerRetain: elements are compared by object alone.
LowerRetain_ByObject(raised, object, owner_id, owner_name) ==
    Keep(raised, {i \in DOMAIN raised : raised[i].object # object})

\* Handler<Lower>: room.raised.retain(|elem| elem != &raised_equivalent)
LowerRetain(raised, object, owner_id, owner_name) ==
    Keep(raised, {i \in DOMAIN raised :
                    ~RaisedEq(raised[i], Raised(object, owner_id, owner_name))})

\* Handler<Lower>::handle
HandleLower(object, owner_id, owner_name, room_name) ==
    LET room == RoomOrDefault(rooms, room_name)
    IN IF LowerCheck(room.raised, object, owner_id)
       THEN /\ outbox' = send_error_user(NoMail, sessions, Put(rooms, room_name, room),
                                         room_name, "not_raised", owner_id)
            /\ rooms' = Put(rooms, room_name, room)
            /\ UNCHANGED sessions
       ELSE LET room1 == [room EXCEPT !.raised = LowerRetain(@, object, owner_id, owner_name)]
                rs == Put(rooms, room_name, room1)
                elevated == is_elevated_or_false(room1, owner_id)
                txt == MOwnedObject("Lower", owner_id, owner_name, object, elevated)
            IN /\ outbox' = send_message_all(NoMail, sessions, rs, room_name, txt)
               /\ rooms' = rs
               /\ UNCHANGED sessions

\* StreamHandler::handle, "lower" frame, and Handler<Lower>
Lower(id, object) ==
    /\ id \in DOMAIN session
    /\ LET room_name == session[id].room
           missing == LowerCheck(rooms[room_name].raised, object, id)
       IN /\ HandleLower(object, id, session[id].name, room_name)
          /\ last' = [Cmd("Lower", id, room_name) EXCEPT
                         !.obj = object,
                         !.res = IF missing THEN "not_raised" ELSE "ok",
                         !.inRow = AfterRaise(id, object),
                         !.twoBack = IF AfterRaise(id, object)
                                     THEN before.rooms[room_name].raised ELSE <<>>]
    /\ History
    /\ UNCHANGED <<counter, session, issued, timer>>

\* Handler<Instant>::handle
HandleInstant(object, owner_id, owner_name, room_name) ==
    LET elevated == is_elevated_or_false(rooms[room_name], owner_id)
        txt == MOwnedObject("Instant", owner_id, owner_name, object, elevated)
    IN /\ outbox' = send_message_all(NoMail, sessions, rooms, room_name, txt)
       /\ UNCHANGED <<sessions, rooms>>

\* StreamHandler::handle, "instant" frame, and Handler<Instant>
Instant(id, object) ==
    /\ id \in DOMAIN session
    /\ HandleInstant(object, id, session[id].name, session[id].room)
    /\ last' = [Cmd("Instant", id, session[id].room) EXCEPT !.obj = object]
    /\ History
    /\ UNCHANGED <<counter, session, issued, timer>>

\* ------------------------------------------------------------------ polls
\* Handler<Poll>, Handler<PollOption>, Handler<PollCloseHelper>: user_is_elevated.len() > 0
SenderElevated(room, id, name) ==
    \E u \in DOMAIN room.connected :
        u = id /\ room.connected[u].name = name /\ room.connected[u].elevated

\* Variant of PollExists: closed polls are not counted.
PollExists_OpenOnly(polls, title) ==
    \E i \in DOMAIN polls : polls[i].title = title /\ ~polls[i].closed

\* poll_exists.retain(|elem| elem.title == title); poll_exists.len() > 0
PollExists(polls, title) == \E i \in DOMAIN polls : polls[i].title = title

\* room.polls.iter().position(|poll| poll.title == title).unwrap()
PollIndex(polls, title) ==
    CHOOSE i \in DOMAIN polls :
        /\ polls[i].title = title
        /\ \A j \in DOMAIN polls : polls[j].title = title => i <= j

\* poll_option_exists.retain(|o| o.title == title); poll_option_exists.len() > 0
OptionExists(poll, title) == \E i \in DOMAIN poll.options : poll.options[i] = title

\* Handler<Poll>: the check that ends the handler, or "ok"
PollResult(room, title, id, name) ==
    IF ~SenderElevated(room, id, name) THEN "no_permission"
    ELSE IF PollExists(room.polls, title) THEN "poll_already_exists"
    ELSE "ok"

\* Handler<Poll>::handle
HandlePoll(title, owner_id, owner_name, room_name) ==
    LET room == RoomOrDefault(rooms, room_name)
        rs0 == Put(rooms, room_name, room)
        res == PollResult(room, title, owner_id, owner_name)
    IN IF res # "ok"
       THEN /\ outbox' = send_error_user(NoMail, sessions, rs0, room_name, res, owner_id)
            /\ rooms' = rs0
            /\ UNCHANGED sessions
       ELSE LET rs == [rs0 EXCEPT ![room_name].polls = Append(@, NewPoll(title))]
            IN /\ outbox' = send_message_all(NoMail, sessions, rs, room_name, MPoll(title))
               /\ rooms' = rs
               /\ UNCHANGED sessions

\* StreamHandler::handle, "poll" frame, and Handler<Poll>
Poll(id, title) ==
    /\ id \in DOMAIN session
    /\ LET room_name == session[id].room
       IN /\ HandlePoll(title, id, session[id].name, room_name)
          /\ last' = [Cmd("Poll", id, room_name) EXCEPT
                         !.poll = title,
                         !.res = PollResult(rooms[room_name], title, id, session[id].name)]
    /\ History
    /\ UNCHANGED <<counter, session, issued, timer>>

\* Variant of PollOptionResult: the poll is looked up before the sender's privilege.
PollOptionResult_LookupFirst(room, poll_title, title, id, name) ==
    IF ~PollExists(room.polls, poll_title) THEN "poll_does_not_exist"
    ELSE IF ~SenderElevated(room, id, name) THEN "no_permission"
    ELSE IF room.polls[PollIndex(room.polls, poll_title)].closed THEN "poll_closed"
    ELSE IF OptionExists(room.polls[PollIndex(room.polls, poll_title)], title)
         THEN "poll_option_already_exists"
    ELSE "ok"

\* Handler<PollOption>: the check that ends the handler, or "ok"
PollOptionResult(room, poll_title, title, id, name) ==
    IF ~SenderElevated(room, id, name) THEN "no_permission"
    ELSE IF ~PollExists(room.polls, poll_title) THEN "poll_does_not_exist"
    ELSE IF room.polls[PollIndex(room.polls, poll_title)].closed THEN "poll_closed"
    ELSE IF OptionExists(room.polls[PollIndex(room.polls, poll_title)], title)
         THEN "poll_option_already_exists"
    ELSE "ok"

\* Handler<PollOption>::handle
HandlePollOption(poll_title, title, owner_id, owner_name, room_name) ==
    LET room == RoomOrDefault(rooms, room_name)
        rs0 == Put(rooms, room_name, room)
        res == PollOptionResult(room, poll_title, title, owner_id, owner_name)
    IN IF res # "ok"
       THEN /\ outbox' = send_error_user(NoMail, sessions, rs0, room_name, res, owner_id)
            /\ rooms' = rs0
            /\ UNCHANGED sessions
       ELSE LET i == PollIndex(room.polls, poll_title)
                rs == [rs0 EXCEPT ![room_name].polls[i].options = Append(@, title)]
            IN /\ outbox' = send_message_all(NoMail, sessions, rs, room_name,
                                             MPollOption(room.polls[i].title, title))
               /\ rooms' = rs
               /\ UNCHANGED sessions

\* StreamHandler::handle, "polloption" frame, and Handler<PollOption>
PollOption(id, poll_title, title) ==
    /\ id \in DOMAIN session
    /\ LET room_name == session[id].room
       IN /\ HandlePollOption(poll_title, title, id, session[id].name, room_name)
          /\ last' = [Cmd("PollOption", id, room_name) EXCEPT
                         !.poll = poll_title, !.opt = title,
                         !.res = PollOptionResult(rooms[room_name], poll_title, title,
                                                  id, session[id].name)]
    /\ History
    /\ UNCHANGED <<counter, session, issued, timer>>

\* Variant of VoteResult: the option is not looked up.
VoteResult_NoOptionCheck(room, poll_title, option_title) ==
    IF ~PollExists(room.polls, poll_title) THEN "poll_does_not_exist"
    ELSE IF room.polls[PollIndex(room.polls, poll_title)].closed THEN "poll_closed"
    ELSE "ok"

\* Variant of VoteResult: the option is looked up before the closed flag is read.
VoteResult_OptionFirst(room, poll_title, option_title) ==
    IF ~PollExists(room.polls, poll_title) THEN "poll_does_not_exist"
    ELSE IF ~OptionExists(room.polls[PollIndex(room.polls, poll_title)], option_title)
         THEN "poll_option_does_not_exist"
    ELSE IF room.polls[PollIndex(room.polls, poll_title)].closed THEN "poll_closed"
    ELSE "ok"

\* Handler<PollVoteHelper>: the check that ends the handler, or "ok"
VoteResult(room, poll_title, option_title) ==
    IF ~PollExists(room.polls, poll_title) THEN "poll_does_not_exist"
    ELSE IF room.polls[PollIndex(room.polls, poll_title)].closed THEN "poll_closed"
    ELSE IF ~OptionExists(room.polls[PollIndex(room.polls, poll_title)], option_title)
         THEN "poll_option_does_not_exist"
    ELSE "ok"

\* Variant of VoteInsert: the votes of the poll are cleared, not one entry removed.
VoteInsert_Fresh(votes, owner_id, option_title) == Put(<<>>, owner_id, option_title)

\* Handler<PollVoteHelper>: poll.votes.remove(&owner_id); poll.votes.insert(owner_id, option)
VoteInsert(votes, owner_id, option_title) == Put(Del(votes, owner_id), owner_id, option_title)

\* Variant of VoteSends: the Vote sends come first, the VoteDelete sends after them.
VoteSends_DeleteLast(ob, ss, rs, room_name, poll_title, removed, option_title, owner_id, owner_name) ==
    LET ob1 == send_message_all_elevated(ob, ss, rs, room_name,
                   MVote(poll_title, option_title, owner_name, owner_id))
        ob2 == send_message_all_not_elevated(ob1, ss, rs, room_name,
                   MVote(poll_title, option_title, "", NoUser))
        ob3 == IF removed # <<>>
               THEN send_message_all_elevated(ob2, ss, rs, room_name,
                        MVoteDelete(poll_title, removed[1], owner_id))
               ELSE ob2
    IN IF removed # <<>>
       THEN send_message_all_not_elevated(ob3, ss, rs, room_name,
                MVoteDelete(poll_title, removed[1], NoUser))
       ELSE ob3

\* Handler<PollVoteHelper>: the two VoteDelete sends (when remove_vote) and the two Vote sends
VoteSends(ob, ss, rs, room_name, poll_title, removed, option_title, owner_id, owner_name) ==
    LET ob1 == IF removed # <<>>
               THEN send_message_all_elevated(ob, ss, rs, room_name,
                        MVoteDelete(poll_title, removed[1], owner_id))
               ELSE ob
        ob2 == IF removed # <<>>
               THEN send_message_all_not_elevated(ob1, ss, rs, room_name,
                        MVoteDelete(poll_title, removed[1], NoUser))
               ELSE ob1
        ob3 == send_message_all_elevated(ob2, ss, rs, room_name,
                   MVote(poll_title, option_title, owner_name, owner_id))
    IN send_message_all_not_elevated(ob3, ss, rs, room_name,
           MVote(poll_title, option_title, "", NoUser))

\* Handler<PollVoteHelper>::handle
HandleVote(poll_title, option_title, owner_id, owner_name, room_name) ==
    LET room == RoomOrDefault(rooms, room_name)
        rs0 == Put(rooms, room_name, room)
        res == VoteResult(room, poll_title, option_title)
    IN IF res # "ok"
       THEN /\ outbox' = send_error_user(NoMail, sessions, rs0, room_name, res, owner_id)
            /\ rooms' = rs0
            /\ UNCHANGED sessions
       ELSE LET i == PollIndex(room.polls, poll_title)
                votes == room.polls[i].votes
                \* remove_vote and remove_vote_option_title: <<>> when there was no vote
                removed == IF owner_id \in DOMAIN votes THEN <<votes[owner_id]>> ELSE <<>>
                rs == [rs0 EXCEPT ![room_name].polls[i].votes =
                          VoteInsert(@, owner_id, option_title)]
            IN /\ outbox' = VoteSends(NoMail, sessions, rs, room_name, room.polls[i].title,
                                      removed, option_title, owner_id, owner_name)
               /\ rooms' = rs
               /\ UNCHANGED sessions

\* StreamHandler::handle, "vote" frame, and Handler<PollVoteHelper>
Vote(id, poll_title, option_title) ==
    /\ id \in DOMAIN session
    /\ LET room_name == session[id].room
       IN /\ HandleVote(poll_title, option_title, id, session[id].name, room_name)
          /\ last' = [Cmd("Vote", id, room_name) EXCEPT
                         !.poll = poll_title, !.opt = option_title,
                         !.res = VoteResult(rooms[room_name], poll_title, option_title)]
    /\ History
    /\ UNCHANGED <<counter, session, issued, timer>>

\* Handler<PollCloseHelper>: the check that ends the handler, or "ok"
PollCloseResult(room, poll_title, id, name) ==
    IF ~SenderElevated(room, id, name) THEN "no_permission"
    ELSE IF ~PollExists(room.polls, poll_title) THEN "poll_does_not_exist"
    ELSE IF room.polls[PollIndex(room.polls, poll_title)].closed THEN "poll_closed"
    ELSE "ok"

\* Handler<PollCloseHelper>::handle
HandlePollClose(poll_title, sender_id, sender_name, room_name) ==
    LET room == RoomOrDefault(rooms, room_name)
        rs0 == Put(rooms, room_name, room)
        res == PollCloseResult(room, poll_title, sender_id, sender_name)
    IN IF res # "ok"
       THEN /\ outbox' = send_error_user(NoMail, sessions, rs0, room_name, res, sender_id)
            /\ rooms' = rs0
            /\ UNCHANGED sessions
       ELSE LET i == PollIndex(room.polls, poll_title)
                rs == [rs0 EXCEPT ![room_name].polls[i].closed = TRUE]
            IN /\ outbox' = send_message_all(NoMail, sessions, rs, room_name,
                                             MPollClose(room.polls[i].title))
               /\ rooms' = rs
               /\ UNCHANGED sessions

\* StreamHandler::handle, "closepoll" frame, and Handler<PollCloseHelper>
PollClose(id, poll_title) ==
    /\ id \in DOMAIN session
    /\ LET room_name == session[id].room
       IN /\ HandlePollClose(poll_title, id, session[id].name, room_name)
          /\ last' = [Cmd("PollClose", id, room_name) EXCEPT
                         !.poll = poll_title,
                         !.res = PollCloseResult(rooms[room_name], poll_title,
                                                 id, session[id].name)]
    /\ History
    /\ UNCHANGED <<counter, session, issued, timer>>

\* ------------------------------------------------------ Elevate and Recede
\* Variant of PrivilegeCheck: the requester's own flag is not read.
PrivilegeCheck_AnyRequester(rs, room_name, requester_id, user_id, elevated) ==
    /\ room_name \in DOMAIN rs
    /\ is_elevated(rs[room_name], user_id) \in {"true", "false"}
    /\ (is_elevated(rs[room_name], user_id) = "true") # elevated

\* process_priviliges: room.is_elevated(&requester_id)? && room.is_elevated(&user_id)? != elevated
PrivilegeCheck(rs, room_name, requester_id, user_id, elevated) ==
    /\ room_name \in DOMAIN rs
    /\ is_elevated(rs[room_name], requester_id) = "true"
    /\ is_elevated(rs[room_name], user_id) \in {"true", "false"}
    /\ (is_elevated(rs[room_name], user_id) = "true") # elevated

\* Variant of PrivilegePollReplay: the two arms of `if elevated` are exchanged.
PrivilegePollReplay_ArmsExchanged(room, poll, ord, elevated) ==
    IF poll.closed THEN <<>>
    ELSE LET voters == KeysIn(poll.votes, ord)
             pair(userid) ==
                 IF ~elevated
                 THEN <<MVoteDelete(poll.title, poll.votes[userid], NoUser),
                        MVote(poll.title, poll.votes[userid],
                              room.connected[userid].name, userid)>>
                 ELSE <<MVoteDelete(poll.title, poll.votes[userid], userid),
                        MVote(poll.title, poll.votes[userid], "", NoUser)>>
         IN [k \in 1..(2 * Len(voters)) |-> pair(voters[(k + 1) \div 2])[2 - (k % 2)]]

\* process_priviliges, "resend votes": what one poll contributes, its votes iterated in ord
PrivilegePollReplay(room, poll, ord, elevated) ==
    IF poll.closed THEN <<>>
    ELSE LET voters == KeysIn(poll.votes, ord)
             pair(userid) ==
                 IF elevated
                 THEN <<MVoteDelete(poll.title, poll.votes[userid], NoUser),
                        MVote(poll.title, poll.votes[userid],
                              room.connected[userid].name, userid)>>
                 ELSE <<MVoteDelete(poll.title, poll.votes[userid], userid),
                        MVote(poll.title, poll.votes[userid], "", NoUser)>>
         IN [k \in 1..(2 * Len(voters)) |-> pair(voters[(k + 1) \div 2])[2 - (k % 2)]]

\* process_priviliges, "resend votes": for poll in room_imut.polls.clone()
RECURSIVE PrivilegeReplay(_, _, _, _)
PrivilegeReplay(room, polls, ords, elevated) ==
    IF polls = <<>> THEN <<>>
    ELSE PrivilegePollReplay(room, Head(polls), Head(ords), elevated)
         \o PrivilegeReplay(room, Tail(polls), Tail(ords), elevated)

\* WebSocketServer::process_priviliges followed by the Ok arm of Handler<Elevate> / Handler<Recede>
HandlePrivilege(room_name, requester_id, user_id, elevated) ==
    IF PrivilegeCheck(rooms, room_name, requester_id, user_id, elevated)
    THEN LET room1 == set_elevated(rooms[room_name], user_id, elevated)
             rs == [rooms EXCEPT ![room_name] = room1]
         IN \E ords \in [1..Len(room1.polls) -> IdOrders] :
               LET ob1 == SendEachUser(NoMail, sessions, rs, room_name,
                                       PrivilegeReplay(room1, room1.polls, ords, elevated),
                                       user_id)
                   txt == MPermissionChange(IF elevated THEN "Elevated" ELSE "Receded",
                                            user_id, elevated)
               IN /\ outbox' = send_message_all(ob1, sessions, rs, room_name, txt)
                  /\ rooms' = rs
                  /\ UNCHANGED sessions
    ELSE /\ outbox' = NoMail
         /\ UNCHANGED <<sessions, rooms>>

\* StreamHandler::handle, "elevate" frame, and Handler<Elevate>
Elevate(id, object) ==
    /\ id \in DOMAIN session
    /\ HandlePrivilege(session[id].room, id, object, TRUE)
    /\ last' = [Cmd("Elevate", id, session[id].room) EXCEPT
                   !.target = object,
                   !.res = IF PrivilegeCheck(rooms, session[id].room, id, object, TRUE)
                           THEN "ok" ELSE "ignored"]
    /\ History
    /\ UNCHANGED <<counter, session, issued, timer>>

\* StreamHandler::handle, "recede" frame, and Handler<Recede>
Recede(id, object) ==
    /\ id \in DOMAIN session
    /\ HandlePrivilege(session[id].room, id, object, FALSE)
    /\ last' = [Cmd("Recede", id, session[id].room) EXCEPT
                   !.target = object,
                   !.res = IF PrivilegeCheck(rooms, session[id].room, id, object, FALSE)
                           THEN "ok" ELSE "ignored"]
    /\ History
    /\ UNCHANGED <<counter, session, issued, timer>>

\* ---------------------------------------------------------- specification
\* WebSocketServer::default(), no session accepted yet
Init ==
    /\ counter = FirstId
    /\ session = <<>>
    /\ sessions = {}
    /\ rooms = <<>>
    /\ outbox = NoMail
    /\ last = Cmd("none", NoUser, "")
    /\ before = [sessions |-> {}, rooms |-> <<>>]
    /\ everElevated = {}
    /\ view = [u \in Ids |-> NoView]
    /\ issued = <<>>
    /\ mailbox = <<>>
    /\ now = 0
    /\ timer = <<>>
    /\ accepted = <<>>
    /\ serial = 0
    /\ inbox = NoMail
    /\ wire = [u \in Ids |-> [prev |-> NoTag, cur |-> NoTag]]

Next ==
    \/ \E r \in RoomNames, n \in UserNames : Join(r, n)
    \/ \E id \in Ids : Disconnect(id)
    \/ \E id \in Ids, o \in Objects : Raise(id, o)
    \/ \E id \in Ids, o \in Objects : Lower(id, o)
    \/ \E id \in Ids, o \in Objects : Instant(id, o)
    \/ \E id \in Ids, p \in PollTitles : Poll(id, p)
    \/ \E id \in Ids, p \in PollTitles, o \in OptionTitles : PollOption(id, p, o)
    \/ \E id \in Ids, p \in PollTitles, o \in OptionTitles : Vote(id, p, o)
    \/ \E id \in Ids, p \in PollTitles : PollClose(id, p)
    \/ \E id \in Ids, t \in NoUser..MaxId : Elevate(id, t)
    \/ \E id \in Ids, t \in NoUser..MaxId : Recede(id, t)

\* Every session sends any frame at any time.
Spec == Init /\ [][Next]_vars

\* -------------------------------------------------------------- scenarios
\* The specifications below are Spec with the sessions sending only some kinds
\* of frame, so that each kind of state is reached within the bounds.

\* Membership and privileges: sessions of two rooms join, leave, elevate and recede.
MembersNext ==
    \/ \E r \in RoomNames, n \in UserNames : Join(r, n)
    \/ \E id \in Ids : Disconnect(id)
    \/ \E id \in Ids, t \in NoUser..MaxId : Elevate(id, t)
    \/ \E id \in Ids, t \in NoUser..MaxId : Recede(id, t)

SpecMembers == Init /\ [][MembersNext]_vars

\* Raised flags: the sessions of one room raise, lower and send instants.
FlagsNext ==
    \/ \E n \in UserNames : Join("r1", n)
    \/ \E id \in Ids : Disconnect(id)
    \/ \E id \in Ids, o \in Objects : Raise(id, o)
    \/ \E id \in Ids, o \in Objects : Lower(id, o)
    \/ \E id \in Ids, o \in Objects : Instant(id, o)

SpecFlags == Init /\ [][FlagsNext]_vars

\* One poll: up to MaxVoters sessions of one room run the poll "p".
PollsNext ==
    \/ \E n \in UserNames : counter <= MaxVoters /\ Join("r1", n)
    \/ \E id \in Ids : Disconnect(id)
    \/ \E id \in Ids : Poll(id, "p")
    \/ \E id \in Ids, o \in OptionTitles : PollOption(id, "p", o)
    \/ \E id \in Ids, o \in OptionTitles : Vote(id, "p", o)
    \/ \E id \in Ids : PollClose(id, "p")
    \/ \E id \in Ids, t \in NoUser..MaxId : Elevate(id, t)
    \/ \E id \in Ids, t \in NoUser..MaxId : Recede(id, t)

SpecPolls == Init /\ [][PollsNext]_vars

\* Two polls, one option each, and one flag: up to MaxVoters sessions of one room
\* vote, raise, close the poll "q" and leave.
LeaveNext ==
    \/ \E n \in UserNames : counter <= MaxVoters /\ Join("r1", n)
    \/ \E id \in Ids : Disconnect(id)
    \/ \E id \in Ids, p \in PollTitles : Poll(id, p)
    \/ \E id \in Ids, p \in PollTitles : PollOption(id, p, "a")
    \/ \E id \in Ids, p \in PollTitles : Vote(id, p, "a")
    \/ \E id \in Ids : PollClose(id, "q")
    \/ \E id \in Ids : Raise(id, "x")

SpecLeave == Init /\ [][LeaveNext]_vars

\* Two polls and changed votes: up to MaxVoters sessions of one room vote and vote
\* again in the polls "p", of two options, and "q", of one.
BallotsNext ==
    \/ \E n \in UserNames : counter <= MaxVoters /\ Join("r1", n)
    \/ \E id \in Ids, p \in PollTitles : Poll(id, p)
    \/ \E id \in Ids, o \in OptionTitles : PollOption(id, "p", o)
    \/ \E id \in Ids : PollOption(id, "q", "a")
    \/ \E id \in Ids, p \in PollTitles, o \in OptionTitles : Vote(id, p, o)

SpecBallots == Init /\ [][BallotsNext]_vars

\* Polls meeting a newcomer: the first session sets up and closes the polls "p" and
\* "q", sessions vote in "p", and sessions keep joining.
ReplayNext ==
    \/ Join("r1", "alice")
    \/ \E p \in PollTitles : Poll(FirstId, p)
    \/ \E o \in OptionTitles : PollOption(FirstId, "p", o)
    \/ PollOption(FirstId, "q", "a")
    \/ \E id \in Ids, o \in OptionTitles : Vote(id, "p", o)
    \/ \E p \in PollTitles : PollClose(FirstId, p)

SpecReplay == Init /\ [][ReplayNext]_vars

\* Refused commands: up to MaxVoters sessions of one room send every kind of
\* command that can be refused, about one flag, one poll and its options.
ErrorsNext ==
    \/ \E n \in UserNames : counter <= MaxVoters /\ Join("r1", n)
    \/ \E id \in Ids : Raise(id, "x")
    \/ \E id \in Ids : Lower(id, "x")
    \/ \E id \in Ids : Poll(id, "p")
    \/ \E id \in Ids : PollOption(id, "p", "a")
    \/ \E id \in Ids, o \in OptionTitles : Vote(id, "p", o)
    \/ \E id \in Ids : PollClose(id, "p")

SpecErrors == Init /\ [][ErrorsNext]_vars

\* Two rooms side by side: sessions join either room, raise a flag, leave, and
\* elevate and recede any session of either room.
TwoRoomsNext ==
    \/ \E r \in RoomNames : Join(r, "alice")
    \/ \E id \in Ids : Disconnect(id)
    \/ \E id \in Ids, t \in Ids : Elevate(id, t)
    \/ \E id \in Ids, t \in Ids : Recede(id, t)
    \/ \E id \in Ids : Raise(id, "x")

SpecTwoRooms == Init /\ [][TwoRoomsNext]_vars

\* ----------------------------------------------------------------- claims
\* The messages of kind type among msgs, in order.
OfType(msgs, type) == SelectSeq(msgs, LAMBDA m : m.type = type)

\* Nobody but the sessions in to was sent anything by the last handler run.
OnlyTo(to) == \A m \in Ids \ to : outbox[m] = <<>>

\* Whether room r had no member when the last handler run began.
WasEmpty(r) == r \notin DOMAIN before.rooms \/ DOMAIN before.rooms[r].connected = {}

\* C1: after a Join, the joiner's stored User.elevated and the elevated field of the
\* one SelfStatus ("self") message it was sent are both true if the room's connected
\* map was empty when the Join began, and both false otherwise.
C1_JoinElevatedIffEmpty ==
    last.op = "Join" =>
        LET u == last.uid
            selfs == OfType(outbox[u], "SelfStatus")
        IN /\ u \in DOMAIN rooms[last.room].connected
           /\ rooms[last.room].connected[u].elevated = WasEmpty(last.room)
           /\ Len(selfs) = 1
           /\ selfs[1].object = u
           /\ selfs[1].elevated = WasEmpty(last.room)

\* C1 witness: a Join into a room that existed, had lost all its members, and
\* made the joiner elevated.
C1_Witness ==
    /\ last.op = "Join"
    /\ last.room \in DOMAIN before.rooms
    /\ WasEmpty(last.room)
    /\ last.uid > FirstId
    /\ rooms[last.room].connected[last.uid].elevated

\* C2: after a successful Vote by u, every elevated member of the room was sent
\* exactly one Vote message, carrying u's name and id, every other member exactly
\* one Vote message with username "" and userid 0, and nobody else was sent anything.
C2_VotePartition ==
    (last.op = "Vote" /\ last.res = "ok") =>
        LET conn == rooms[last.room].connected
            u == last.uid
        IN /\ \A m \in DOMAIN conn :
                 OfType(outbox[m], "Vote") =
                    <<IF conn[m].elevated
                      THEN MVote(last.poll, last.opt, conn[u].name, u)
                      ELSE MVote(last.poll, last.opt, "", NoUser)>>
           /\ OnlyTo(DOMAIN conn)

\* C2 witness: a member that is not elevated voted while an elevated member was
\* in the room.
C2_Witness ==
    /\ last.op = "Vote" /\ last.res = "ok"
    /\ ~rooms[last.room].connected[last.uid].elevated
    /\ \E m \in DOMAIN rooms[last.room].connected : rooms[last.room].connected[m].elevated

\* C3: a session that has never been elevated is never sent a Vote or VoteDelete
\* message with a userid other than 0, nor a Vote with a username other than "".
C3_VotesRedacted ==
    \A u \in Ids \ everElevated :
        \A i \in DOMAIN outbox[u] :
            /\ outbox[u][i].type \in {"Vote", "VoteDelete"} => outbox[u][i].userid = NoUser
            /\ outbox[u][i].type = "Vote" => outbox[u][i].username = ""

\* C3 witness: a session that has never been elevated is sent the VoteDelete and
\* the Vote of another member's changed vote.
C3_Witness ==
    \E u \in Ids \ everElevated :
        /\ last.op = "Vote" /\ last.res = "ok" /\ last.uid # u
        /\ Len(OfType(outbox[u], "VoteDelete")) = 1
        /\ Len(OfType(outbox[u], "Vote")) = 1

\* The sender of the last message was a member of its room, and not elevated,
\* when the handler run began.
SenderWasPlain ==
    /\ last.room \in DOMAIN before.rooms
    /\ last.uid \in DOMAIN before.rooms[last.room].connected
    /\ ~before.rooms[last.room].connected[last.uid].elevated

\* The polls titled title the sender's room held when the last handler run began.
NamedBefore(title) ==
    IF last.room \in DOMAIN before.rooms
    THEN {i \in DOMAIN before.rooms[last.room].polls :
            before.rooms[last.room].polls[i].title = title}
    ELSE {}

\* The last handler run sent the one message Error(code) to the sender, sent
\* nothing to anyone else, and left sessions and rooms as they were.
RejectedWith(code) ==
    /\ outbox[last.uid] = <<MError(code)>>
    /\ OnlyTo({last.uid})
    /\ rooms = before.rooms
    /\ sessions = before.sessions

\* C4: a Poll, PollOption or PollClose sent by a member that is not elevated is
\* answered with Error "no_permission" to the sender alone and changes nothing,
\* whatever the state of the named poll.
C4_NoPermissionFirst ==
    (last.op \in {"Poll", "PollOption", "PollClose"} /\ SenderWasPlain) =>
        RejectedWith("no_permission")

\* C4 witness: a member that is not elevated sent PollOption for a closed poll
\* and an option title the poll already has.
C4_Witness ==
    /\ last.op = "PollOption" /\ SenderWasPlain
    /\ \E i \in NamedBefore(last.poll) :
          /\ before.rooms[last.room].polls[i].closed
          /\ OptionExists(before.rooms[last.room].polls[i], last.opt)

\* The outcome C5 expects of a Vote, read off the room as it was before.
C5_Expected ==
    IF NamedBefore(last.poll) = {} THEN "poll_does_not_exist"
    ELSE IF \E i \in NamedBefore(last.poll) : before.rooms[last.room].polls[i].closed
         THEN "poll_closed"
    ELSE IF \A i \in NamedBefore(last.poll) :
               \A k \in DOMAIN before.rooms[last.room].polls[i].options :
                   before.rooms[last.room].polls[i].options[k] # last.opt
         THEN "poll_option_does_not_exist"
    ELSE "ok"

\* C5: a Vote by any member, elevated or not, succeeds exactly if the poll exists,
\* is open and has the option: then the poll maps the voter to the option and the
\* voter is sent no Error.  Otherwise the voter alone is sent one Error, that of the
\* first failing check in the order exists, open, option, and nothing changes.
C5_VoteChecks ==
    last.op = "Vote" =>
        IF C5_Expected = "ok"
        THEN /\ \A i \in NamedBefore(last.poll) :
                   /\ last.uid \in DOMAIN rooms[last.room].polls[i].votes
                   /\ rooms[last.room].polls[i].votes[last.uid] = last.opt
             /\ OfType(outbox[last.uid], "Error") = <<>>
             /\ OfType(outbox[last.uid], "Vote") # <<>>
        ELSE RejectedWith(C5_Expected)

\* C5 witness: a member that is not elevated voted on a closed poll for an option
\* the poll does not have.
C5_Witness ==
    /\ last.op = "Vote" /\ SenderWasPlain
    /\ \E i \in NamedBefore(last.poll) :
          /\ before.rooms[last.room].polls[i].closed
          /\ ~OptionExists(before.rooms[last.room].polls[i], last.opt)

\* Every poll that was closed when the last handler run began is still in its
\* place with the same options, votes and closed flag.
ClosedPollsKept ==
    \A r \in DOMAIN before.rooms :
        \A i \in DOMAIN before.rooms[r].polls :
            before.rooms[r].polls[i].closed =>
                /\ r \in DOMAIN rooms
                /\ i \in DOMAIN rooms[r].polls
                /\ rooms[r].polls[i] = before.rooms[r].polls[i]

\* The last message was a PollOption, Vote or PollClose naming a closed poll.
OnClosedPoll ==
    /\ last.op \in {"PollOption", "Vote", "PollClose"}
    /\ \E i \in NamedBefore(last.poll) : before.rooms[last.room].polls[i].closed

\* C6 as stated: no handler run changes a closed poll, and every PollOption, Vote
\* and PollClose naming a closed poll is answered with Error "poll_closed".
C6_AsStated ==
    /\ ClosedPollsKept
    /\ OnClosedPoll => RejectedWith("poll_closed")

\* C6, amended: no handler run changes a closed poll; a Vote naming a closed poll,
\* and a PollOption or PollClose naming one and sent by an elevated member, is
\* answered with Error "poll_closed"; a PollOption or PollClose naming one and sent
\* by a member that is not elevated is answered with Error "no_permission".
C6_ClosedIsFrozen ==
    /\ ClosedPollsKept
    /\ OnClosedPoll =>
          IF last.op # "Vote" /\ SenderWasPlain
          THEN RejectedWith("no_permission")
          ELSE RejectedWith("poll_closed")

\* C6 witness: a member with a vote in a closed poll disconnected while another
\* member stayed, and the vote is still recorded.
C6_Witness ==
    /\ last.op = "Disconnect" /\ last.res = "ok"
    /\ last.room \in DOMAIN rooms
    /\ DOMAIN rooms[last.room].connected # {}
    /\ \E i \in DOMAIN rooms[last.room].polls :
          /\ rooms[last.room].polls[i].closed
          /\ last.uid \in DOMAIN rooms[last.room].polls[i].votes

\* C7: no two elements of a room's raised list have the same object and owner_id.
C7_RaisedUnique ==
    \A r \in DOMAIN rooms :
        \A i, j \in DOMAIN rooms[r].raised :
            (/\ rooms[r].raised[i].object = rooms[r].raised[j].object
             /\ rooms[r].raised[i].owner_id = rooms[r].raised[j].owner_id) => i = j

\* C7 witness: a list of two elements with the same object and different owners,
\* after one of the owners tried to raise the object again.
C7_Witness ==
    /\ last.op = "Raise" /\ last.res = "already_raised"
    /\ Len(rooms[last.room].raised) = 2
    /\ rooms[last.room].raised[1].object = rooms[last.room].raised[2].object
    /\ rooms[last.room].raised[1].owner_id # rooms[last.room].raised[2].owner_id

Matching(raised, object, owner_id) ==
    {i \in DOMAIN raised : raised[i].object = object /\ raised[i].owner_id = owner_id}

\* C9: a Raise handled directly after the successful Raise of the same object by
\* the same session leaves exactly one matching element in the raised list, which
\* it does not change, and sends one Error "already_raised" to that session alone.
C9_RaiseTwice ==
    (last.op = "Raise" /\ last.inRow) =>
        /\ Cardinality(Matching(rooms[last.room].raised, last.obj, last.uid)) = 1
        /\ RejectedWith("already_raised")

\* C9 witness: the second Raise in a row, with another member in the room.
C9_Witness ==
    /\ last.op = "Raise" /\ last.inRow
    /\ DOMAIN rooms[last.room].connected \ {last.uid} # {}

\* The elements of raised that uid does not own, in order.
NotOwnedBy(raised, uid) == Keep(raised, {i \in DOMAIN raised : raised[i].owner_id # uid})

\* C10: a Lower never removes an element owned by another session; when only
\* other sessions hold the object raised, the sender alone is sent Error
\* "not_raised", the raised list stays as it was and nobody is sent a Lower.
C10_LowerOwnOnly ==
    last.op = "Lower" =>
        LET was == before.rooms[last.room].raised
            raisedByOthersOnly ==
                /\ \E i \in DOMAIN was : was[i].object = last.obj
                /\ Matching(was, last.obj, last.uid) = {}
        IN /\ NotOwnedBy(rooms[last.room].raised, last.uid) = NotOwnedBy(was, last.uid)
           /\ raisedByOthersOnly =>
                 /\ RejectedWith("not_raised")
                 /\ \A m \in Ids : OfType(outbox[m], "Lower") = <<>>

\* C10 witness: a Lower of an object that only another session holds raised.
C10_Witness ==
    /\ last.op = "Lower"
    /\ \E i \in DOMAIN before.rooms[last.room].raised :
          before.rooms[last.room].raised[i].object = last.obj
    /\ Matching(before.rooms[last.room].raised, last.obj, last.uid) = {}

\* C11: in every room the polls, closed ones included, have pairwise distinct
\* titles, and in every poll the options have pairwise distinct titles.
C11_TitlesUnique ==
    \A r \in DOMAIN rooms :
        LET polls == rooms[r].polls
        IN /\ \A i, j \in DOMAIN polls : polls[i].title = polls[j].title => i = j
           /\ \A i \in DOMAIN polls :
                 \A k, l \in DOMAIN polls[i].options :
                     polls[i].options[k] = polls[i].options[l] => k = l

\* C11 witness: an elevated member sent Poll with the title of a closed poll that
\* has two options, and was refused.
C11_Witness ==
    /\ last.op = "Poll" /\ last.res = "poll_already_exists"
    /\ \E i \in NamedBefore(last.poll) :
          /\ rooms[last.room].polls[i].closed
          /\ Len(rooms[last.room].polls[i].options) = 2

\* C12: after a successful Vote by u, the named poll maps u to the option voted
\* for, every other voter of that poll keeps the entry it had, nobody else has
\* gained an entry, and every other poll of every room has the votes it had.
C12_VoteOverwrites ==
    (last.op = "Vote" /\ last.res = "ok") =>
        LET polls == rooms[last.room].polls
            was == before.rooms[last.room].polls
        IN /\ DOMAIN polls = DOMAIN was
           /\ \A i \in DOMAIN polls :
                 IF was[i].title = last.poll
                 THEN /\ DOMAIN polls[i].votes = DOMAIN was[i].votes \cup {last.uid}
                      /\ polls[i].votes[last.uid] = last.opt
                      /\ \A v \in DOMAIN was[i].votes \ {last.uid} :
                            polls[i].votes[v] = was[i].votes[v]
                 ELSE polls[i].votes = was[i].votes
           /\ \A r \in DOMAIN before.rooms \ {last.room} : rooms[r] = before.rooms[r]

\* C12 witness: a member changed its vote to another option of a poll in which
\* another member has a vote, while it also has a vote in another poll.
C12_Witness ==
    /\ last.op = "Vote" /\ last.res = "ok"
    /\ \E i, j \in DOMAIN before.rooms[last.room].polls :
          LET was == before.rooms[last.room].polls
          IN /\ was[i].title = last.poll
             /\ last.uid \in DOMAIN was[i].votes
             /\ was[i].votes[last.uid] # last.opt
             /\ DOMAIN was[i].votes \ {last.uid} # {}
             /\ i # j
             /\ last.uid \in DOMAIN was[j].votes

\* The option the sender of the last message had voted for in the poll it names,
\* when the handler run began: <<option>>, or <<>> if it had no vote there.
VotedBefore ==
    LET was == before.rooms[last.room].polls
        i == CHOOSE i \in NamedBefore(last.poll) : TRUE
    IN IF last.uid \in DOMAIN was[i].votes THEN <<was[i].votes[last.uid]>> ELSE <<>>

\* C13: after a successful Vote by a member that had a vote in the poll, every
\* member of the room was sent exactly two messages, first a VoteDelete naming the
\* poll and the option voted for before, then a Vote naming the poll and the new
\* option; after one by a member that had no vote there, every member was sent a
\* Vote alone and nobody a VoteDelete.
C13_DeleteBeforeVote ==
    (last.op = "Vote" /\ last.res = "ok") =>
        \A m \in DOMAIN rooms[last.room].connected :
            IF VotedBefore # <<>>
            THEN /\ Len(outbox[m]) = 2
                 /\ outbox[m][1].type = "VoteDelete"
                 /\ outbox[m][1].pollobject = last.poll
                 /\ outbox[m][1].polloptionobject = VotedBefore[1]
                 /\ outbox[m][2].type = "Vote"
                 /\ outbox[m][2].pollobject = last.poll
                 /\ outbox[m][2].polloptionobject = last.opt
            ELSE /\ Len(outbox[m]) = 1
                 /\ outbox[m][1].type = "Vote"
                 /\ outbox[m][1].polloptionobject = last.opt

\* C13 witness: a member voted again for the option it had voted for, in a room
\* with an elevated member and a member that is not.
C13_Witness ==
    /\ last.op = "Vote" /\ last.res = "ok"
    /\ VotedBefore = <<last.opt>>
    /\ \E m, n \in DOMAIN rooms[last.room].connected :
          /\ rooms[last.room].connected[m].elevated
          /\ ~rooms[last.room].connected[n].elevated

\* C14: after the Disconnect of a member u, no room's raised list has an element
\* owned by u, no open poll has a vote of u, and every closed poll has exactly the
\* votes it had before, u's among them.
C14_DisconnectPurges ==
    (last.op = "Disconnect" /\ last.res = "ok") =>
        \A r \in DOMAIN rooms :
            /\ \A i \in DOMAIN rooms[r].raised : rooms[r].raised[i].owner_id # last.uid
            /\ DOMAIN rooms[r].polls = DOMAIN before.rooms[r].polls
            /\ \A i \in DOMAIN rooms[r].polls :
                  IF rooms[r].polls[i].closed
                  THEN rooms[r].polls[i].votes = before.rooms[r].polls[i].votes
                  ELSE last.uid \notin DOMAIN rooms[r].polls[i].votes

\* C14 witness: the member that left had raised a flag and had a vote in an open
\* poll and a vote in a closed poll, and another member stays in the room.
C14_Witness ==
    /\ last.op = "Disconnect" /\ last.res = "ok"
    /\ DOMAIN rooms[last.room].connected # {}
    /\ LET was == before.rooms[last.room]
       IN /\ \E i \in DOMAIN was.raised : was.raised[i].owner_id = last.uid
          /\ \E i, j \in DOMAIN was.polls :
                /\ ~was.polls[i].closed /\ last.uid \in DOMAIN was.polls[i].votes
                /\ was.polls[j].closed /\ last.uid \in DOMAIN was.polls[j].votes

\* The open polls of the sender's room that held a vote of the sender when the
\* last handler run began.
HeldBefore ==
    {i \in DOMAIN before.rooms[last.room].polls :
        /\ ~before.rooms[last.room].polls[i].closed
        /\ last.uid \in DOMAIN before.rooms[last.room].polls[i].votes}

\* C15: after the Disconnect of a member u, every remaining member of u's room was
\* sent first one All, which is the room without u and without u's raises, and
\* then exactly one VoteDelete for each open poll that held a vote of u, naming
\* the poll and the option, with userid u if the recipient is elevated and 0 if it
\* is not; u itself and everybody outside the room were sent nothing.
C15_DisconnectSends ==
    (last.op = "Disconnect" /\ last.res = "ok") =>
        LET room == rooms[last.room]
            was == before.rooms[last.room].polls
        IN /\ OnlyTo(DOMAIN room.connected)
           /\ last.uid \notin DOMAIN room.connected
           /\ \A m \in DOMAIN room.connected :
                 LET rest == Tail(outbox[m])
                     userid == IF room.connected[m].elevated THEN last.uid ELSE NoUser
                 IN /\ outbox[m] # <<>>
                    /\ Head(outbox[m]) = MAll(room)
                    /\ last.uid \notin DOMAIN Head(outbox[m]).joined
                    /\ \A i \in DOMAIN Head(outbox[m]).raised :
                          Head(outbox[m]).raised[i].owner_id # last.uid
                    /\ Len(rest) = Cardinality(HeldBefore)
                    /\ \A i \in HeldBefore :
                          \E k \in DOMAIN rest :
                              rest[k] = MVoteDelete(was[i].title, was[i].votes[last.uid], userid)

\* C15 witness: the member that left had raised a flag and had votes in two open
\* polls, and a member that is not elevated stays in the room.
C15_Witness ==
    /\ last.op = "Disconnect" /\ last.res = "ok"
    /\ Cardinality(HeldBefore) = 2
    /\ \E i \in DOMAIN before.rooms[last.room].raised :
          before.rooms[last.room].raised[i].owner_id = last.uid
    /\ \E m \in DOMAIN rooms[last.room].connected : ~rooms[last.room].connected[m].elevated

\* C16: a Disconnect for an id that sessions does not hold leaves sessions and
\* rooms as they were and sends nothing to anybody; a Disconnect handled directly
\* after a Disconnect of the same id always is such a one.
C16_DisconnectUnknown ==
    /\ (last.op = "Disconnect" /\ last.uid \notin before.sessions) =>
          /\ sessions = before.sessions
          /\ rooms = before.rooms
          /\ outbox = NoMail
    /\ (last.op = "Disconnect" /\ last.inRow) => last.uid \notin before.sessions

\* C16 witness: the second of two Disconnects in a row, for a session whose vote a
\* closed poll still holds, while a member with a vote in an open poll stays.
C16_Witness ==
    /\ last.op = "Disconnect" /\ last.inRow
    /\ \E r \in DOMAIN rooms :
          /\ \E m \in DOMAIN rooms[r].connected, i \in DOMAIN rooms[r].polls :
                ~rooms[r].polls[i].closed /\ m \in DOMAIN rooms[r].polls[i].votes
          /\ \E i \in DOMAIN rooms[r].polls : last.uid \in DOMAIN rooms[r].polls[i].votes

\* The last message was an Elevate or Recede that process_priviliges has to accept:
\* when the handler run began the requester was an elevated member of its room,
\* the target a member of the same room, and the target's elevated flag was not
\* the requested one.
PrivilegeDue ==
    /\ last.room \in DOMAIN before.rooms
    /\ LET was == before.rooms[last.room].connected
       IN /\ last.uid \in DOMAIN was
          /\ was[last.uid].elevated
          /\ last.target \in DOMAIN was
          /\ was[last.target].elevated # (last.op = "Elevate")

\* C17: an Elevate or Recede that is due sets the target's elevated flag to the
\* requested value, changes nothing else, and sends every member of the room the
\* Elevated or Receded message as its last message; one that is not due leaves
\* sessions and rooms as they were and sends nothing, not even an Error.
C17_PrivilegeIff ==
    last.op \in {"Elevate", "Recede"} =>
        IF PrivilegeDue
        THEN LET want == (last.op = "Elevate")
                 txt == MPermissionChange(IF want THEN "Elevated" ELSE "Receded",
                                          last.target, want)
             IN /\ rooms = [before.rooms EXCEPT
                               ![last.room].connected[last.target].elevated = want]
                /\ sessions = before.sessions
                /\ \A m \in DOMAIN rooms[last.room].connected :
                      /\ outbox[m] # <<>>
                      /\ outbox[m][Len(outbox[m])] = txt
                /\ OnlyTo(DOMAIN rooms[last.room].connected)
        ELSE /\ rooms = before.rooms
             /\ sessions = before.sessions
             /\ outbox = NoMail

\* C17 witness: an elevated member sent Elevate for a member of another room that
\* is not elevated, and nothing happened.
C17_Witness ==
    /\ last.op = "Elevate"
    /\ rooms[last.room].connected[last.uid].elevated
    /\ \E r \in DOMAIN rooms \ {last.room} :
          /\ last.target \in DOMAIN rooms[r].connected
          /\ ~rooms[r].connected[last.target].elevated
    /\ outbox = NoMail

\* The last message was an Elevate or Recede that succeeded.
PrivilegeGiven == last.op \in {"Elevate", "Recede"} /\ last.res = "ok"

\* What the target of the last Elevate or Recede was sent before its last message.
ReplaySent ==
    LET sent == outbox[last.target]
    IN IF sent = <<>> THEN <<>> ELSE SubSeq(sent, 1, Len(sent) - 1)

\* The votes of the open polls of the sender's room: <<poll index, voter>>.
OpenVotes ==
    {iv \in (DOMAIN rooms[last.room].polls) \X Ids :
        /\ ~rooms[last.room].polls[iv[1]].closed
        /\ iv[2] \in DOMAIN rooms[last.room].polls[iv[1]].votes}

\* ReplaySent is made of pairs, a VoteDelete and then a Vote, one pair for each
\* vote of each open poll, both naming the poll and the option of the vote.  The
\* VoteDelete has the voter's id if delReal and userid 0 if not; the Vote has the
\* voter's name and id if voteReal, and username "" and userid 0 if not.
ReplayIs(delReal, voteReal) ==
    /\ Len(ReplaySent) = 2 * Cardinality(OpenVotes)
    /\ \A k \in DOMAIN ReplaySent :
          ReplaySent[k].type = IF k % 2 = 1 THEN "VoteDelete" ELSE "Vote"
    /\ \A iv \in OpenVotes :
          LET poll == rooms[last.room].polls[iv[1]]
              v == iv[2]
              name == rooms[last.room].connected[v].name
          IN \E k \in DOMAIN ReplaySent :
                /\ k % 2 = 1
                /\ ReplaySent[k] = MVoteDelete(poll.title, poll.votes[v],
                                               IF delReal THEN v ELSE NoUser)
                /\ ReplaySent[k + 1] = MVote(poll.title, poll.votes[v],
                                             IF voteReal THEN name ELSE "",
                                             IF voteReal THEN v ELSE NoUser)

C19_ReplayThenBroadcast ==
    PrivilegeGiven =>
        LET want == (last.op = "Elevate")
            txt == MPermissionChange(IF want THEN "Elevated" ELSE "Receded",
                                     last.target, want)
        IN /\ outbox[last.target] = Append(ReplaySent, txt)
           /\ Len(ReplaySent) = 2 * Cardinality(OpenVotes)
           /\ \A k \in DOMAIN ReplaySent : ReplaySent[k].type \in {"VoteDelete", "Vote"}
           /\ \A m \in DOMAIN rooms[last.room].connected \ {last.target} :
                 outbox[m] = <<txt>>
           /\ OnlyTo(DOMAIN rooms[last.room].connected)

\* C19 witness: a member elevated another member while an open poll held votes
\* of both.
C19_Witness ==
    /\ PrivilegeGiven /\ last.op = "Elevate"
    /\ last.uid # last.target
    /\ \E iv, jw \in OpenVotes : iv[2] = last.target /\ jw[2] = last.uid

\* The number of entries <<poll title, option, userid>> the votes of poll give a
\* client: for an elevated client one entry per vote under the voter's id, for
\* any other client one entry per vote under userid 0.
ServerCount(elevated, poll, option, userid) ==
    LET voters == {v \in DOMAIN poll.votes : poll.votes[v] = option}
    IN IF elevated
       THEN IF userid \in voters THEN 1 ELSE 0
       ELSE IF userid = NoUser THEN Cardinality(voters) ELSE 0

\* C20: after every handler run, the view of every session in sessions holds, for
\* every open poll of its room, every option title and every userid, exactly the
\* entries the server's votes give a client of its role.
C20_ViewConsistent ==
    \A u \in sessions :
        \A r \in DOMAIN rooms :
            u \in DOMAIN rooms[r].connected =>
                \A i \in DOMAIN rooms[r].polls :
                    ~rooms[r].polls[i].closed =>
                        \A o \in OptionTitles, id \in NoUser..MaxId :
                            view[u][<<rooms[r].polls[i].title, o, id>>] =
                                ServerCount(rooms[r].connected[u].elevated,
                                            rooms[r].polls[i], o, id)

\* C20 witness: a member that had seen two votes of an open poll under userid 0
\* was elevated and now holds them under the voters' ids.
C20_Witness ==
    /\ PrivilegeGiven /\ last.op = "Elevate"
    /\ Cardinality(OpenVotes) = 2
    /\ \A iv \in OpenVotes :
          LET poll == rooms[last.room].polls[iv[1]]
          IN /\ view[last.target][<<poll.title, poll.votes[iv[2]], iv[2]>>] = 1
             /\ view[last.target][<<poll.title, poll.votes[iv[2]], NoUser>>] = 0

\* C21: after a Join of u, every member that was in the room before was sent the
\* one message Joined, naming u, and u was sent no Joined; u was sent first an All
\* whose joined map holds u itself, then SelfStatus, and after these only Poll,
\* PollOption and Vote messages; a joiner of a room that had no member and no poll
\* was sent All and SelfStatus and nothing more.
C21_JoinOrder ==
    last.op = "Join" =>
        LET u == last.uid
            room == rooms[last.room]
            sent == outbox[u]
        IN /\ \A m \in DOMAIN room.connected \ {u} :
                 outbox[m] = <<MJoined(u, room.connected[u].name, room.connected[u].elevated)>>
           /\ OnlyTo(DOMAIN room.connected)
           /\ OfType(sent, "Joined") = <<>>
           /\ Len(sent) >= 2
           /\ sent[1] = MAll(room)
           /\ u \in DOMAIN sent[1].joined
           /\ sent[2] = MSelfStatus(u, room.connected[u].elevated)
           /\ \A k \in 3..Len(sent) : sent[k].type \in {"Poll", "PollOption", "Vote"}
           /\ (WasEmpty(last.room) /\ room.polls = <<>>) => Len(sent) = 2

\* C21 witness: a Join into a room that has a member and an open poll with an
\* option and a vote.
C21_Witness ==
    /\ last.op = "Join"
    /\ ~WasEmpty(last.room)
    /\ Len(OfType(outbox[last.uid], "Poll")) = 1
    /\ Len(OfType(outbox[last.uid], "PollOption")) >= 1
    /\ Len(OfType(outbox[last.uid], "Vote")) = 1

\* msgs is what Handler<Join> has to send for polls: for each open poll in order
\* a Poll, then a PollOption for each option in order, then as many Vote messages
\* as the poll has votes, all with username "" and userid 0 and as many of them
\* for each option as the option has votes; nothing for a closed poll.
RECURSIVE ReplayMatches(_, _)
ReplayMatches(msgs, polls) ==
    IF polls = <<>> THEN msgs = <<>>
    ELSE LET poll == Head(polls)
             nopt == Len(poll.options)
             n == 1 + nopt + Cardinality(DOMAIN poll.votes)
         IN IF poll.closed THEN ReplayMatches(msgs, Tail(polls))
            ELSE /\ Len(msgs) >= n
                 /\ msgs[1] = MPoll(poll.title)
                 /\ \A k \in 1..nopt : msgs[1 + k] = MPollOption(poll.title, poll.options[k])
                 /\ \A k \in (2 + nopt)..n :
                       /\ msgs[k].type = "Vote"
                       /\ msgs[k].pollobject = poll.title
                       /\ msgs[k].username = ""
                       /\ msgs[k].userid = NoUser
                 /\ \A o \in OptionTitles :
                       Cardinality({k \in (2 + nopt)..n : msgs[k].polloptionobject = o}) =
                       Cardinality({v \in DOMAIN poll.votes : poll.votes[v] = o})
                 /\ ReplayMatches(SubSeq(msgs, n + 1, Len(msgs)), Tail(polls))

\* C22: after a Join, what the newcomer was sent after All and SelfStatus is, for
\* every open poll of the room in the order the polls were created, one Poll, one
\* PollOption per option in the order the options were added and one Vote with
\* username "" and userid 0 per vote; closed polls contribute nothing.
C22_JoinReplay ==
    last.op = "Join" =>
        /\ Len(outbox[last.uid]) >= 2
        /\ ReplayMatches(SubSeq(outbox[last.uid], 3, Len(outbox[last.uid])),
                         rooms[last.room].polls)

\* C22 witness: a Join into a room with a closed poll and an open poll that has
\* two options and two votes.
C22_Witness ==
    /\ last.op = "Join"
    /\ \E i, j \in DOMAIN rooms[last.room].polls :
          LET polls == rooms[last.room].polls
          IN /\ polls[i].closed /\ polls[i].options # <<>>
             /\ ~polls[j].closed
             /\ Len(polls[j].options) = 2
             /\ Cardinality(DOMAIN polls[j].votes) = 2

\* C23: a joiner that found the connected map of its room empty was sent no Poll,
\* PollOption or Vote message by its Join, whatever happened in the room before.
C23_FirstJoinerNoPolls ==
    (last.op = "Join" /\ WasEmpty(last.room)) =>
        \A k \in DOMAIN outbox[last.uid] :
            outbox[last.uid][k].type \notin {"Poll", "PollOption", "Vote"}

\* C24: every id in the connected map of any room is in sessions, and no id is in
\* the connected maps of two rooms.
C24_Membership ==
    /\ \A r \in DOMAIN rooms : DOMAIN rooms[r].connected \subseteq sessions
    /\ \A r, q \in DOMAIN rooms :
          r # q => DOMAIN rooms[r].connected \cap DOMAIN rooms[q].connected = {}

\* C24 witness: two rooms have members, after a member of one of them left and a
\* later session joined the other.
C24_Witness ==
    /\ last.op = "Join"
    /\ \A r \in RoomNames : r \in DOMAIN rooms /\ DOMAIN rooms[r].connected # {}
    /\ \E id \in Ids : id < last.uid /\ id \notin sessions

\* C25: in every room, every id with a vote in an open poll is in the connected
\* map of the room.
C25_VotersConnected ==
    \A r \in DOMAIN rooms :
        \A i \in DOMAIN rooms[r].polls :
            ~rooms[r].polls[i].closed =>
                DOMAIN rooms[r].polls[i].votes \subseteq DOMAIN rooms[r].connected

\* C25 witness: a member with a vote in an open poll left, and the poll still
\* holds the vote of a member that stays.
C25_Witness ==
    /\ last.op = "Disconnect" /\ last.res = "ok"
    /\ \E i \in HeldBefore : DOMAIN rooms[last.room].polls[i].votes # {}

\* The error codes of server.rs.
ErrorCodes ==
    {"already_raised", "not_raised", "no_permission", "poll_already_exists",
     "poll_does_not_exist", "poll_closed", "poll_option_already_exists",
     "poll_option_does_not_exist"}

\* C26: whenever a handler run sent an Error message, it sent it to the session
\* that sent the command, it sent nothing else to anybody, the code is one of the
\* eight, and sessions and rooms are as they were before the command.
C26_ErrorsLocal ==
    \A m \in Ids :
        \A k \in DOMAIN outbox[m] :
            outbox[m][k].type = "Error" =>
                /\ m = last.uid
                /\ outbox[m][k].object \in ErrorCodes
                /\ RejectedWith(outbox[m][k].object)

\* C26 witness: a member that is not elevated voted for an option the open poll
\* does not have, in a room with another member, a raised flag and an option.
C26_Witness ==
    /\ last.op = "Vote" /\ last.res = "poll_option_does_not_exist"
    /\ SenderWasPlain
    /\ outbox[last.uid] # <<>>
    /\ rooms[last.room].raised # <<>>
    /\ \E i \in DOMAIN rooms[last.room].polls : rooms[last.room].polls[i].options # <<>>

JoinMsg(id, room_name, user_name) ==
    [kind |-> "Join", id |-> id, room |-> room_name, name |-> user_name]

DisconnectMsg(id) ==
    [kind |-> "Disconnect", id |-> id, room |-> "", name |-> ""]

\* web_socket_route: the session is constructed with the next id and hb = now.
Accept(room_name, user_name) ==
    /\ counter <= MaxId
    /\ counter' = fetch_add(counter, 1)
    /\ issued' = Append(issued, counter)
    /\ accepted' = Put(accepted, counter, [room |-> room_name, name |-> user_name, hb |-> now])
    /\ outbox' = NoMail
    /\ last' = Cmd("Accept", counter, room_name)
    /\ UNCHANGED <<session, sessions, rooms, mailbox, now, timer>>
    /\ Record

\* started: the heartbeat interval begins and the Join is posted; the session
\* handles nothing else until the Join is answered.
Started(id) ==
    /\ id \in DOMAIN accepted
    /\ accepted' = Del(accepted, id)
    /\ timer' = Put(timer, id, [last |-> accepted[id].hb, due |-> now + HEARTBEAT_INTERVAL,
                                late |-> 0])
    /\ mailbox' = Append(mailbox, JoinMsg(id, accepted[id].room, accepted[id].name))
    /\ outbox' = NoMail
    /\ last' = Cmd("Started", id, accepted[id].room)
    /\ UNCHANGED <<counter, issued, session, sessions, rooms, now>>
    /\ Record

\* stopping: the session posts its Disconnect.
stopping_Silent(mb, id) == mb

stopping(mb, id) == Append(mb, DisconnectMsg(id))

\* The WebSocketServer handles the oldest message of its mailbox.  The session
\* whose Join is answered goes on to handle its frames.
HandleMail ==
    /\ mailbox # <<>>
    /\ mailbox' = Tail(mailbox)
    /\ LET m == Head(mailbox)
       IN  IF m.kind = "Join"
           THEN /\ HandleJoin(m.id, m.name, m.room)
                /\ session' = Put(session, m.id, [room |-> m.room, name |-> m.name])
                /\ last' = Cmd("Join", m.id, m.room)
           ELSE /\ HandleDisconnect(m.id)
                /\ session' = session
                /\ last' = [Cmd("Disconnect", m.id, "")
                               EXCEPT !.res = IF m.id \in sessions THEN "ok" ELSE "ignored",
                                      !.inRow = last.op = "Disconnect" /\ last.uid = m.id]
    /\ UNCHANGED <<counter, issued, now, timer, accepted>>
    /\ Record

\* The frames and failures that end a session: ctx.stop() and then stopping.
StopCauses == {"Close", "Continuation", "ProtocolError"}

Stop(id, cause) ==
    /\ id \in DOMAIN session
    /\ session' = Del(session, id)
    /\ timer' = Del(timer, id)
    /\ mailbox' = stopping(mailbox, id)
    /\ outbox' = NoMail
    /\ last' = Cmd(cause, id, session[id].room)
    /\ UNCHANGED <<counter, issued, sessions, rooms, now, accepted>>
    /\ Record

\* Variant of FrameHb: every frame sets hb.
FrameHb_EveryFrame(kind, hb, time) == time

\* StreamHandler::handle: hb after a frame of the given kind.
FrameHb(kind, hb, time) == IF kind \in {"Ping", "Pong"} THEN time ELSE hb

\* A ping or a pong of the client: hb = Instant::now().
PingPong(id) ==
    /\ id \in DOMAIN session
    /\ timer' = [timer EXCEPT ![id].last = FrameHb("Ping", @, now), ![id].late = 0]
    /\ outbox' = NoMail
    /\ last' = Cmd("PingPong", id, session[id].room)
    /\ UNCHANGED <<counter, issued, session, sessions, rooms, mailbox, now, accepted>>
    /\ Record

\* hb: the test of a heartbeat tick.
HbTimedOut_AtTimeout(time, hb) == time - hb >= CLIENT_TIMEOUT

HbTimedOut(time, hb) == time - hb > CLIENT_TIMEOUT

\* A heartbeat tick of a session: on a timeout the closure posts a Disconnect and
\* stops the session, whose stopping posts another; otherwise it sends one ping.
Tick(id) ==
    /\ id \in DOMAIN session
    /\ timer[id].due = now
    /\ IF HbTimedOut(now, timer[id].last)
       THEN /\ session' = Del(session, id)
            /\ timer' = Del(timer, id)
            /\ mailbox' = stopping(Append(mailbox, DisconnectMsg(id)), id)
            /\ last' = [Cmd("Tick", id, session[id].room)
                           EXCEPT !.res = "timeout", !.elapsed = now - timer[id].last]
       ELSE /\ timer' = [timer EXCEPT ![id].due = now + HEARTBEAT_INTERVAL,
                                      ![id].late = @ + (IF now > timer[id].last THEN 1 ELSE 0)]
            /\ last' = [Cmd("Tick", id, session[id].room)
                           EXCEPT !.elapsed = now - timer[id].last, !.pings = 1]
            /\ UNCHANGED <<session, mailbox>>
    /\ outbox' = NoMail
    /\ UNCHANGED <<counter, issued, sessions, rooms, now, accepted>>
    /\ Record

\* A second passes once every tick due has been taken.
Advance ==
    /\ now < MaxTime
    /\ \A id \in DOMAIN timer : timer[id].due > now
    /\ now' = now + 1
    /\ outbox' = NoMail
    /\ last' = Cmd("Advance", NoUser, "")
    /\ UNCHANGED <<counter, issued, session, sessions, rooms, mailbox, timer, accepted>>
    /\ Record

\* Scenario: connections to r1 are accepted and started in any order, the
\* WebSocketServer handles its mailbox, sessions close and send instants.
AcceptNext ==
    \/ \E n \in UserNames : Accept("r1", n)
    \/ \E id \in Ids : Started(id)
    \/ HandleMail
    \/ \E id \in Ids : Stop(id, "Close")
    \/ \E id \in Ids : Instant(id, "x")

SpecAccept == Init /\ [][AcceptNext]_vars

\* C28: the ids get_id has returned are pairwise distinct and at least 1, in
\* whatever order the accepted sessions start and join; id 0 is a member of no
\* room; and an Instant, which goes to all(room), is sent exactly once to every
\* member of the sender's room.
C28_NobodySkipped ==
    /\ \A i \in 1..Len(issued), j \in 1..Len(issued) : i # j => issued[i] # issued[j]
    /\ \A i \in 1..Len(issued) : issued[i] >= 1
    /\ \A r \in DOMAIN rooms : NoUser \notin DOMAIN rooms[r].connected
    /\ last.op = "Instant" =>
           \A m \in DOMAIN rooms[last.room].connected :
               Len(OfType(outbox[m], "Instant")) = 1

\* An Instant has reached the three members of r1, of which the one that was
\* accepted last joined first.
C28_Witness ==
    /\ last.op = "Instant"
    /\ Cardinality(DOMAIN rooms["r1"].connected) = 3
    /\ \A m \in DOMAIN rooms["r1"].connected : Len(outbox[m]) = 1
    /\ rooms["r1"].connected[MaxId].elevated

\* Scenario: up to MaxVoters sessions join r1 and answer pings or fall silent
\* while the clock runs; the WebSocketServer handles the Disconnects posted.
HeartbeatNext ==
    \/ counter <= MaxVoters /\ Join("r1", "alice")
    \/ \E id \in Ids : PingPong(id)
    \/ \E id \in Ids : Tick(id)
    \/ Advance
    \/ HandleMail

SpecHeartbeat == Init /\ [][HeartbeatNext]_vars

\* C29: a heartbeat tick ends the session exactly when more than 10 seconds have
\* passed since its hb was set; a tick that does not end it leaves it live, sends
\* one ping and is followed by the next tick 5 seconds later; and no live session
\* has passed three ticks that the clock puts later than its last ping or pong.
C29_HeartbeatTick ==
    /\ last.op = "Tick" =>
           /\ last.res = "timeout" <=> last.elapsed > 10
           /\ last.res = "timeout" =>
                  /\ last.uid \notin DOMAIN session
                  /\ last.pings = 0
                  /\ mailbox # <<>> /\ mailbox[Len(mailbox)] = DisconnectMsg(last.uid)
           /\ last.res # "timeout" =>
                  /\ last.uid \in DOMAIN session
                  /\ last.pings = 1
                  /\ timer[last.uid].due = now + 5
                  /\ mailbox = <<>> \/ mailbox[Len(mailbox)] # DisconnectMsg(last.uid)
    /\ \A id \in DOMAIN session : timer[id].late < 3

\* A tick taken exactly 10 seconds after the pong, the second later than it,
\* left the session live and sent a ping.
C29_Witness ==
    /\ last.op = "Tick"
    /\ last.res = "ok"
    /\ last.elapsed = 10
    /\ last.pings = 1
    /\ last.uid \in DOMAIN session
    /\ timer[last.uid].late = 2
    /\ timer[last.uid].last > 0

\* Scenario: up to MaxVoters silent sessions are accepted for r1 in the first
\* second and start and join at any time;
\* each ends by a close, a continuation frame, a protocol error or the heartbeat;
\* the WebSocketServer, an actor of its own, keeps handling its mailbox.
ShutdownNext ==
    \/ counter <= MaxVoters /\ now = 0 /\ Accept("r1", "alice")
    \/ \E id \in Ids : Started(id)
    \/ HandleMail
    \/ \E id \in Ids, cause \in StopCauses : Stop(id, cause)
    \/ \E id \in Ids : Tick(id)
    \/ Advance

SpecShutdown == Init /\ [][ShutdownNext]_vars /\ WF_vars(HandleMail)

\* Whether a message of the given kind of session id waits in the mailbox.
Pending(kind, id) ==
    \E i \in 1..Len(mailbox) : mailbox[i].kind = kind /\ mailbox[i].id = id

\* Session id was live and has stopped.
Terminated(id) ==
    /\ \E i \in 1..Len(issued) : issued[i] = id
    /\ id \notin DOMAIN session
    /\ id \notin DOMAIN accepted
    /\ ~Pending("Join", id)

\* Session id is known neither to sessions nor to the connected map of any room.
Absent(id) ==
    /\ id \notin sessions
    /\ \A r \in DOMAIN rooms : id \notin DOMAIN rooms[r].connected

\* C30: the step that ends a session (a close, a continuation frame, a protocol
\* error, a heartbeat timeout) posts its Disconnect; a session that has stopped
\* stays stopped; no Disconnect of a session waits together with its Join; a
\* stopped session none of whose Disconnects waits any more is absent from
\* sessions and from every connected map; and, the WebSocketServer handling its
\* mailbox fairly, every stopped session is absent in the end.
C30_Terminates ==
    /\ [](/\ (last.op \in StopCauses \/ (last.op = "Tick" /\ last.res = "timeout")) =>
                 /\ Terminated(last.uid)
                 /\ mailbox # <<>> /\ mailbox[Len(mailbox)] = DisconnectMsg(last.uid)
          /\ \A id \in Ids : Pending("Disconnect", id) => Terminated(id)
          /\ \A id \in Ids : Terminated(id) /\ ~Pending("Disconnect", id) => Absent(id))
    /\ [][\A id \in Ids : Terminated(id) => Terminated(id)']_vars
    /\ \A id \in Ids : Terminated(id) ~> Absent(id)

\* The first Disconnect of a session ended by its heartbeat has removed it from
\* sessions and from r1, and its second Disconnect still waits.
C30_Witness ==
    /\ last.op = "Disconnect"
    /\ last.res = "ok"
    /\ Terminated(last.uid)
    /\ Absent(last.uid)
    /\ last.uid \in before.sessions
    /\ Pending("Disconnect", last.uid)

\* C39: every value of the votes map of a poll is the title of an option of that
\* poll.
C39_VotesNameOptions ==
    \A r \in DOMAIN rooms : \A i \in DOMAIN rooms[r].polls :
        \A u \in DOMAIN rooms[r].polls[i].votes :
            \E k \in DOMAIN rooms[r].polls[i].options :
                rooms[r].polls[i].options[k] = rooms[r].polls[i].votes[u]

\* A vote for the option "b", which the poll "q" does not have, was refused, and
\* the sender's earlier vote for "a" in "q" stands.
C39_Witness ==
    /\ last.op = "Vote"
    /\ last.poll = "q"
    /\ last.opt = "b"
    /\ last.res = "poll_option_does_not_exist"
    /\ \E i \in DOMAIN rooms[last.room].polls :
           /\ rooms[last.room].polls[i].title = "q"
           /\ last.uid \in DOMAIN rooms[last.room].polls[i].votes
           /\ rooms[last.room].polls[i].votes[last.uid] = "a"

\* C38: the owner of every raised flag of a room is a member of that room, and
\* every All message sent lists no flag whose owner is missing from its joined map.
C38_RaisedOwnersConnected ==
    /\ \A r \in DOMAIN rooms : \A i \in DOMAIN rooms[r].raised :
           rooms[r].raised[i].owner_id \in DOMAIN rooms[r].connected
    /\ \A m \in Ids : \A k \in DOMAIN outbox[m] :
           outbox[m][k].type = "All" =>
               \A i \in DOMAIN outbox[m][k].raised :
                   outbox[m][k].raised[i].owner_id \in DOMAIN outbox[m][k].joined

\* A session that had raised a flag has left; the member that stays, whose own
\* flag is still raised, was sent All.
C38_Witness ==
    /\ last.op = "Disconnect"
    /\ last.res = "ok"
    /\ Len(Keep(before.rooms["r1"].raised,
                {i \in DOMAIN before.rooms["r1"].raised :
                    before.rooms["r1"].raised[i].owner_id = last.uid})) = 1
    /\ Len(rooms["r1"].raised) = 1
    /\ \E m \in DOMAIN rooms["r1"].connected :
           /\ rooms["r1"].raised[1].owner_id = m
           /\ OfType(outbox[m], "All") # <<>>

\* C35: no unwrap of a handler can fail.  The room of every running session is in
\* rooms, where Raise, Lower and Instant look it up, and no step removes a room;
\* and every voter of every open poll is a member of the poll's room, where
\* process_priviliges looks it up.
C35_NoFailingUnwrap ==
    /\ \A id \in DOMAIN session : session[id].room \in DOMAIN rooms
    /\ DOMAIN before.rooms \subseteq DOMAIN rooms
    /\ \A r \in DOMAIN rooms : \A i \in DOMAIN rooms[r].polls :
           \A u \in DOMAIN rooms[r].polls[i].votes :
               rooms[r].polls[i].closed \/ u \in DOMAIN rooms[r].connected

\* An Elevate went through in a room whose open poll holds the votes of both
\* members, and replayed them to the target.
C35_Witness ==
    /\ last.op = "Elevate"
    /\ last.res = "ok"
    /\ \E i \in DOMAIN rooms[last.room].polls :
           /\ ~rooms[last.room].polls[i].closed
           /\ Cardinality(DOMAIN rooms[last.room].polls[i].votes) = 2
    /\ Len(OfType(outbox[last.target], "Vote")) = 2

\* Scenario: the sessions of one room join, leave, elevate and recede, and try to
\* set up and close the poll "p".
OrphanNext ==
    \/ Join("r1", "alice")
    \/ \E id \in Ids : Disconnect(id)
    \/ \E id \in Ids, t \in Ids : Elevate(id, t)
    \/ \E id \in Ids, t \in Ids : Recede(id, t)
    \/ \E id \in Ids : Poll(id, "p")
    \/ \E id \in Ids : PollOption(id, "p", "a")
    \/ \E id \in Ids : PollClose(id, "p")

SpecOrphan == Init /\ [][OrphanNext]_vars

\* Whether the room has members and none of them is elevated.
Headless(room) ==
    /\ DOMAIN room.connected # {}
    /\ \A u \in DOMAIN room.connected : ~room.connected[u].elevated

\* C37: a step taken in a room that has members and no elevated one leaves it
\* without an elevated member: a Join into it is not elevated, a Poll, PollOption
\* or PollClose in it is refused with no_permission, and an Elevate or Recede in
\* it does nothing.
C37_NoModeratorStays ==
    \A r \in DOMAIN before.rooms :
        Headless(before.rooms[r]) =>
            /\ \A u \in DOMAIN rooms[r].connected : ~rooms[r].connected[u].elevated
            /\ last.room = r =>
                   /\ last.op = "Join" =>
                          /\ ~rooms[r].connected[last.uid].elevated
                          /\ OfType(outbox[last.uid], "SelfStatus") =
                                 <<MSelfStatus(last.uid, FALSE)>>
                   /\ last.op \in {"Poll", "PollOption", "PollClose"} =>
                          /\ last.res = "no_permission"
                          /\ rooms[r].polls = before.rooms[r].polls
                   /\ last.op \in {"Elevate", "Recede"} =>
                          /\ last.res = "ignored"
                          /\ rooms[r] = before.rooms[r]

\* The only elevated member receded itself two steps ago; a session has now
\* joined the two plain members and is plain too.
C37_Witness ==
    /\ last.op = "Join"
    /\ "r1" \in DOMAIN before.rooms
    /\ Headless(before.rooms["r1"])
    /\ Cardinality(DOMAIN rooms["r1"].connected) = 3
    /\ FirstId \in DOMAIN rooms["r1"].connected
    /\ FirstId \in everElevated
    /\ Headless(rooms["r1"])

\* The sessions whose Disconnect has been handled (where a session's Join and its
\* Disconnect are handled as soon as they are posted).
Gone == {u \in Ids : (\E i \in 1..Len(issued) : issued[i] = u) /\ u \notin DOMAIN session}

Text(id, frame) ==
    /\ id \in DOMAIN session
    /\ LET c == handle_text(frame)
           name == session[id].name
           room == session[id].room
       IN /\ c.kind = "Raise" =>
                 \/ RaiseCheck(rooms[room].raised, c.object, id)
                 \/ Len(rooms[room].raised) < MaxRaised
          /\ CASE c.kind = "Raise" -> HandleRaise(c.object, id, name, room)
               [] c.kind = "Lower" -> HandleLower(c.object, id, name, room)
               [] c.kind = "Instant" -> HandleInstant(c.object, id, name, room)
               [] c.kind = "Poll" -> HandlePoll(c.poll, id, name, room)
               [] c.kind = "PollOption" -> HandlePollOption(c.poll, c.option, id, name, room)
               [] c.kind = "Vote" -> HandleVote(c.poll, c.option, id, name, room)
               [] c.kind = "PollClose" -> HandlePollClose(c.poll, id, name, room)
               [] c.kind = "Elevate" -> HandlePrivilege(room, id, c.target, TRUE)
               [] c.kind = "Recede" -> HandlePrivilege(room, id, c.target, FALSE)
               [] OTHER -> outbox' = NoMail /\ UNCHANGED <<sessions, rooms>>
          /\ IF c.kind = "panic"
             THEN /\ session' = Del(session, id)
                  /\ timer' = Del(timer, id)
                  /\ mailbox' \in {mailbox, stopping(mailbox, id)}
             ELSE /\ timer' = [timer EXCEPT ![id].last = FrameHb("Text", @, now)]
                  /\ UNCHANGED <<session, mailbox>>
          /\ last' = [Cmd("Text", id, room) EXCEPT
                         !.elapsed = now - timer[id].last,
                         !.res = c.kind, !.frame = frame, !.target = c.target,
                         !.obj = c.object, !.poll = c.poll, !.opt = c.option]
    /\ UNCHANGED <<counter, issued, now, accepted>>
    /\ Record

\* A binary frame or a Nop of a running session.
OtherFrames == {"Binary", "Nop"}

Other(id, kind) ==
    /\ id \in DOMAIN session
    /\ timer' = [timer EXCEPT ![id].last = FrameHb(kind, @, now)]
    /\ outbox' = NoMail
    /\ last' = [Cmd(kind, id, session[id].room) EXCEPT !.elapsed = now - timer[id].last]
    /\ UNCHANGED <<counter, issued, session, sessions, rooms, mailbox, now, accepted>>
    /\ Record

\* Scenario: up to MaxVoters sessions of one room send every text frame of
\* TextFrames; the WebSocketServer handles the Disconnects posted.
FramesNext ==
    \/ counter <= MaxVoters /\ Join("r1", "alice")
    \/ \E id \in Ids, frame \in TextFrames : Text(id, frame)
    \/ HandleMail

SpecFrames == Init /\ [][FramesNext]_vars

\* The fields a frame of the given type requires.
Required(type) ==
    CASE type = "raise" -> {"raiseobject"}
      [] type = "lower" -> {"lowerobject"}
      [] type \in {"poll", "closepoll"} -> {"pollobject"}
      [] type \in {"polloption", "vote"} -> {"polloptionobject", "pollobject"}
      [] type \in {"elevate", "recede"} -> {"object"}
      [] OTHER -> {}

KnownTypes ==
    {"raise", "lower", "instant", "poll", "polloption", "vote", "closepoll", "elevate",
     "recede"}

\* The frame is no JSON object, has no type, has an unknown type or lacks a field
\* its type requires.
Unusable(frame) ==
    \/ ~frame.ok
    \/ "type" \notin DOMAIN frame.map
    \/ /\ frame.map["type"].kind = "String"
       /\ \/ frame.map["type"].s \notin KnownTypes
          \/ ~(Required(frame.map["type"].s) \subseteq DOMAIN frame.map)

\* C33: a text frame that is malformed JSON, has no type, has an unknown type or
\* lacks a required field is dropped: no command is handled, nothing is sent, and
\* the session stays as it was.
C33_UnusableFrameDropped ==
    (last.op = "Text" /\ Unusable(last.frame)) =>
        /\ last.res = "dropped"
        /\ last.uid \in DOMAIN session
        /\ outbox = NoMail
        /\ rooms = before.rooms

\* The elevate and recede frames whose object is a JSON string of a decimal integer.
StringTarget(frame) ==
    /\ frame.ok
    /\ "type" \in DOMAIN frame.map /\ "object" \in DOMAIN frame.map
    /\ frame.map["type"] \in {JString("elevate"), JString("recede")}
    /\ frame.map["object"].kind = "String"
    /\ \E n \in DOMAIN Decimal : frame.map["object"].s = Decimal[n]

\* C34: an elevate or recede frame whose object is a JSON string holding a decimal
\* integer makes an Elevate or Recede with that integer as target; an object that
\* is not numeric makes no command.
C34_StringTargetParsed ==
    /\ (last.op = "Text" /\ StringTarget(last.frame)) =>
           /\ last.res = (IF last.frame.map["type"].s = "elevate" THEN "Elevate" ELSE "Recede")
           /\ last.frame.map["object"].s = Decimal[last.target]
    /\ (/\ last.op = "Text"
        /\ last.frame \in {Obj(Type(t) @@ "object" :> JString("abc")) :
                              t \in {"elevate", "recede"}}) =>
           last.res = "dropped"

\* Scenario: the first session of r1 sends instants, raises, binary frames and
\* pings while the clock advances; its heartbeat ticks run on time.
ChatterFrames ==
    {Obj(Type("instant") @@ "instantobject" :> JString("x")),
     Obj(Type("raise") @@ "raiseobject" :> JString("x"))}

ChatterNext ==
    \/ counter = FirstId /\ Join("r1", "alice")
    \/ \E id \in Ids, frame \in ChatterFrames : Text(id, frame)
    \/ \E id \in Ids, kind \in OtherFrames : Other(id, kind)
    \/ \E id \in Ids : PingPong(id)
    \/ \E id \in Ids : Tick(id)
    \/ Advance
    \/ HandleMail

SpecChatter == Init /\ [][ChatterNext]_vars

\* C36: a text frame, a binary frame or a Nop leaves hb as it was, so the time
\* since hb was set is after the frame what it was before; and no session is live
\* more than CLIENT_TIMEOUT plus one HEARTBEAT_INTERVAL after its hb was set,
\* whatever text frames it sends.
C36_OnlyPingPongRefresh ==
    /\ (last.op \in {"Text"} \cup OtherFrames /\ last.uid \in DOMAIN timer) =>
           now - timer[last.uid].last = last.elapsed
    /\ \A id \in DOMAIN session :
           now - timer[id].last <= CLIENT_TIMEOUT + HEARTBEAT_INTERVAL

\* A session sends an instant 15 seconds after its hb was set, the instant is
\* delivered, and the tick that is due ends the session.
C36_Witness ==
    /\ last.op = "Text" /\ last.res = "Instant"
    /\ last.elapsed = CLIENT_TIMEOUT + HEARTBEAT_INTERVAL
    /\ outbox[last.uid] # <<>>
    /\ timer[last.uid].due = now
    /\ HbTimedOut(now, timer[last.uid].last)

\* ------------------------------------------- commands posted concurrently
\* A command as a session posts it to the WebSocketServer with do_send.
CmdMsg(kind, id, object) ==
    [kind |-> kind, id |-> id, room |-> session[id].room, name |-> session[id].name,
     object |-> object]

\* The frames of the sessions that post concurrently.
PostFrames ==
    {Obj(Type("raise") @@ "raiseobject" :> JString("x")),
     Obj(Type("instant") @@ "instantobject" :> JString("x"))}

\* StreamHandler::handle of a text frame that makes a Raise or an Instant: the
\* command is put in the mailbox of the WebSocketServer, behind what other
\* sessions have posted and it has not handled yet.
Post(id, frame) ==
    /\ id \in DOMAIN session
    /\ serial + Len(mailbox) < MaxCmds
    /\ handle_text(frame).kind \in {"Raise", "Instant"}
    /\ mailbox' = Append(mailbox, CmdMsg(handle_text(frame).kind, id, handle_text(frame).object))
    /\ outbox' = NoMail
    /\ last' = [Cmd("Post", id, session[id].room) EXCEPT !.frame = frame]
    /\ UNCHANGED <<counter, issued, session, sessions, rooms, now, timer, accepted,
                   serial, inbox, wire>>
    /\ Track

\* The messages one handler run sent to one session, each with its place.
Tagged(msgs, run) ==
    [i \in 1..Len(msgs) |-> [serial |-> run, k |-> i, n |-> Len(msgs), msg |-> msgs[i]]]

\* Variant of Enqueue: the messages are put in front of those waiting.
Enqueue_InFront(queue, msgs) == msgs \o queue

\* addr.do_send(Message(..)): the messages join the mailbox of the session actor.
Enqueue(queue, msgs) == queue \o msgs

\* The WebSocketServer handles the oldest message of its mailbox to the end: the
\* handler changes sessions and rooms and sends its messages to the session actors.
Serve ==
    /\ mailbox # <<>>
    /\ mailbox' = Tail(mailbox)
    /\ LET m == Head(mailbox)
       IN /\ CASE m.kind = "Join" -> HandleJoin(m.id, m.name, m.room)
               [] m.kind = "Disconnect" -> HandleDisconnect(m.id)
               [] m.kind = "Raise" -> HandleRaise(m.object, m.id, m.name, m.room)
               [] m.kind = "Instant" -> HandleInstant(m.object, m.id, m.name, m.room)
          /\ session' = IF m.kind = "Join"
                        THEN Put(session, m.id, [room |-> m.room, name |-> m.name])
                        ELSE session
          /\ last' = [Cmd("Serve", m.id, m.room) EXCEPT !.res = m.kind]
    /\ serial' = serial + 1
    /\ inbox' = [u \in Ids |-> Enqueue(inbox[u], Tagged(outbox'[u], serial + 1))]
    /\ UNCHANGED <<counter, issued, now, timer, accepted, wire>>
    /\ Track

\* Handler<server::Message> of a session: ctx.text(msg.0) writes the oldest
\* message of its mailbox to the socket.
Forward(id) ==
    /\ id \in DOMAIN session
    /\ inbox[id] # <<>>
    /\ wire' = [wire EXCEPT ![id] =
                   [prev |-> @.cur,
                    cur |-> [serial |-> Head(inbox[id]).serial, k |-> Head(inbox[id]).k,
                             n |-> Head(inbox[id]).n]]]
    /\ inbox' = [inbox EXCEPT ![id] = Tail(@)]
    /\ outbox' = NoMail
    /\ last' = Cmd("Forward", id, session[id].room)
    /\ UNCHANGED <<counter, issued, session, sessions, rooms, mailbox, now, timer, accepted,
                   serial>>
    /\ Track

\* Scenario: up to MaxVoters connections to r1 are accepted and started, the
\* sessions post raises and instants while others are waiting in the mailbox, a
\* session closes, the WebSocketServer handles its mailbox and the sessions
\* write what they are sent.
ConcurrentNext ==
    \/ counter <= MaxVoters /\ Accept("r1", "alice")
    \/ \E id \in Ids : Started(id)
    \/ \E id \in Ids, frame \in PostFrames : Post(id, frame)
    \/ \E id \in Ids : serial + Len(mailbox) < MaxCmds /\ Stop(id, "Close")
    \/ Serve
    \/ \E id \in Ids : Forward(id)

SpecConcurrent == Init /\ [][ConcurrentNext]_vars

\* Message b comes right after message a on one socket: the next of the same
\* handler run, or the first of a later run after the last of a's run.
Follows(a, b) ==
    IF a.serial = b.serial
    THEN b.k = a.k + 1 /\ b.n = a.n
    ELSE a.serial < b.serial /\ a.k = a.n /\ b.k = 1

\* The two messages written last to the socket of u, followed by the messages
\* waiting in the mailbox of its session, as tags.
Stream(u) ==
    (IF wire[u].cur = NoTag THEN <<>> ELSE <<wire[u].prev, wire[u].cur>>)
        \o [i \in 1..Len(inbox[u]) |->
               [serial |-> inbox[u][i].serial, k |-> inbox[u][i].k, n |-> inbox[u][i].n]]

\* The members of the room the WebSocketServer can send to.
Reached(room_name) == sessions \cap DOMAIN rooms[room_name].connected

\* C31: with commands of several sessions waiting in the mailbox, the messages of
\* one handler run reach every socket next to each other and in the order they
\* were sent, runs in the order they were handled; only a handler run changes
\* sessions and rooms; and what a run sends is computed from the rooms as the run
\* before left them: a joiner is sent the room as it is with the joiner added, and
\* a raise or an instant sends one and the same message to every member.
C31_CommandsAtomic ==
    /\ \A u \in Ids : \A i \in 1..(Len(Stream(u)) - 1) : Follows(Stream(u)[i], Stream(u)[i + 1])
    /\ last.op # "Serve" => rooms = before.rooms /\ sessions = before.sessions
    /\ (last.op = "Serve" /\ last.res = "Join") =>
           /\ rooms[last.room].connected =
                  Put(RoomOrDefault(before.rooms, last.room).connected, last.uid,
                      rooms[last.room].connected[last.uid])
           /\ rooms[last.room].raised = RoomOrDefault(before.rooms, last.room).raised
           /\ Len(outbox[last.uid]) >= 2
           /\ outbox[last.uid][1] = MAll(rooms[last.room])
           /\ outbox[last.uid][2].type = "SelfStatus"
           /\ \A u \in Reached(last.room) \ {last.uid} :
                  Len(outbox[u]) = 1 /\ outbox[u][1].type = "Joined"
    /\ (last.op = "Serve" /\ last.res \in {"Raise", "Instant"}) =>
           \/ /\ last.res = "Raise"
              /\ rooms = before.rooms
              /\ Len(outbox[last.uid]) = 1 /\ outbox[last.uid][1].type = "Error"
              /\ \A u \in Ids \ {last.uid} : outbox[u] = <<>>
           \/ /\ last.res = "Raise" =>
                     Len(rooms[last.room].raised) = Len(before.rooms[last.room].raised) + 1
              /\ last.res = "Instant" => rooms = before.rooms
              /\ \A u \in Reached(last.room) :
                     /\ Len(outbox[u]) = 1
                     /\ outbox[u] = outbox[last.uid]
                     /\ outbox[u][1].owner_id = last.uid
                     /\ outbox[u][1].elevated =
                            is_elevated_or_false(before.rooms[last.room], last.uid)
              /\ \A u \in Ids \ Reached(last.room) : outbox[u] = <<>>

\* A second session has joined while a command of the first was waiting: the
\* first session has written both messages of its own Join and holds messages of
\* two later runs in its mailbox, and another command is still to be handled.
C31_Witness ==
    /\ last.op = "Serve"
    /\ mailbox # <<>>
    /\ \E u \in DOMAIN session :
          /\ wire[u].prev.serial = wire[u].cur.serial /\ wire[u].cur.k = 2
          /\ Len(inbox[u]) >= 2
          /\ inbox[u][1].serial < inbox[u][2].serial

=============================================================================
